---- MODULE Spec2Model ----
(***************************************************************************)
(* Stock ledger of the inventory system: sale creation and cancellation    *)
(* (backend/app/routes/sales.py) over the products, sales and sale_items   *)
(* tables, together with the product handlers that write the products      *)
(* table (backend/app/routes/products.py), and the bulk import of products *)
(* from a spreadsheet: the upload handler, the worker pool that processes  *)
(* the uploaded files and the progress registry that pollers read.         *)
(*                                                                         *)
(* Money is counted in cents (integers).  Each request handler runs on a   *)
(* database connection of its own with autocommit off (database.py:49):    *)
(* its plain SELECTs read committed rows, its INSERT/UPDATE statements     *)
(* become visible to other connections at commit() and its UPDATEs are     *)
(* relative to the row as last committed (stock = stock - q), which the    *)
(* store serialises with row locks held until commit.  A handler is        *)
(* therefore a sequence of steps: its reads, then its writes and commit,   *)
(* then whatever it does after the commit.                                 *)
(***************************************************************************)
EXTENDS Integers, Sequences, FiniteSets, TLC

\* ------------------------------------------------------------------ bounds
MaxProducts == 2
MaxStock == 2
MaxQty == 2
MaxItems == 2
MaxSales == 2
NumSessions == 2
MaxJobs == 4
MaxRows == 3
NumPollers == 2
MaxExtraRows == 2
MaxProgressRows == 50

\* ------------------------------------------------------- program constants
DefaultMinStock == 5
PoolSize == 3
MaxErrorDetails == 10

ProductIds == 1..MaxProducts
Sessions == 1..NumSessions
Users == {1}
UnitPrices == {1, 2}
CatalogPrices == {1, 2}
MinStocks == {0, DefaultMinStock}
NoSku == "NULL"

VARIABLES
    products,     \* products table: id -> row, for the ids that exist
    sales,        \* sales table: sequence of rows, the id is the index
    sale_items,   \* sale_items table: sequence of rows in insertion order
    sess,         \* one record per request being served (connection, locals)
    restored,     \* history: sale id -> number of committed cancellations
    product_seq,  \* AUTO_INCREMENT counter of the products table
    preq,         \* one record per product request being served
    upload_progress,  \* the progress registry: upload id -> entry
    job,          \* upload id -> the locals of its upload handler and worker
    pool_queue,   \* the executor's work queue: upload ids not yet started
    poll,         \* one record per client polling the registry
    applied       \* history: upload id -> the entry after each whole update

saleVars == <<sales, sale_items, sess, restored>>
importVars == <<upload_progress, job, pool_queue, poll, applied>>
vars == <<products, sales, sale_items, sess, restored, product_seq, preq,
          upload_progress, job, pool_queue, poll, applied>>

db == [products |-> products, sales |-> sales, sale_items |-> sale_items]

\* ----------------------------------------------------------------- values
\* mutant of ToFloat: a conversion that loses the last unit of an amount
ToFloatLossy(c) == (c \div 2) * 2

\* float(d) of a decimal amount d, as the handler passes amounts to the
\* store.  Amounts are in cents here; a double holds 15 significant decimal
\* digits, so every amount of whole cents in the range of the model (below
\* 2^31 cents) is written to the store as the decimal it was computed as.
ToFloat(c) == c

\* Decimal(str(unit_price)) * Decimal(str(quantity)): exact
DecimalMul(a, b) == a * b

NoResp == [kind |-> "None", code |-> 0, available |-> 0, requested |-> 0]
Resp(kind, code) == [kind |-> kind, code |-> code, available |-> 0, requested |-> 0]
StockResp(avail, req) ==
    [kind |-> "InsufficientStock", code |-> 400, available |-> avail, requested |-> req]

IdleSession ==
    [pc |-> "idle", op |-> "none", user |-> 0, items |-> <<>>, sale_id |-> 0,
     vitems |-> <<>>, total |-> 0, citems |-> <<>>, pre |-> <<>>, resp |-> NoResp]

RECURSIVE SeqsUpTo(_, _)
SeqsUpTo(S, n) ==
    IF n = 0 THEN {<<>>}
    ELSE LET shorter == SeqsUpTo(S, n - 1)
         IN  shorter \cup {Append(q, x) : q \in {r \in shorter : Len(r) = n - 1}, x \in S}

\* mutant of InsufficientStock: the stock above min_stock is what can be sold
InsufficientStockAboveMin(product, item) ==
    product.stock - product.min_stock < item.quantity

\* sales.py:105, the stock test of one item against the product row read
InsufficientStock(product, item) == product.stock < item.quantity

\* mutant of CheckItem: the stock is tested before the product's state
CheckItemStockFirst(prods, item) ==
    IF item.product_id \notin DOMAIN prods THEN Resp("NotFound", 404)
    ELSE IF InsufficientStock(prods[item.product_id], item)
         THEN StockResp(prods[item.product_id].stock, item.quantity)
    ELSE IF ~prods[item.product_id].is_active THEN Resp("InvalidState", 400)
    ELSE NoResp

\* sales.py:82-114, the three tests of one item, in the order of the code
CheckItem(prods, item) ==
    IF item.product_id \notin DOMAIN prods THEN Resp("NotFound", 404)
    ELSE IF ~prods[item.product_id].is_active THEN Resp("InvalidState", 400)
    ELSE IF InsufficientStock(prods[item.product_id], item)
         THEN StockResp(prods[item.product_id].stock, item.quantity)
    ELSE NoResp

\* sales.py:117, subtotal of one item from the request's unit_price
Subtotal(item) == DecimalMul(item.unit_price, item.quantity)

\* mutant of ValidatedItem: the price is re-read from the product row
ValidatedItemCatalogPrice(prods, item) ==
    [product_id |-> item.product_id,
     quantity |-> item.quantity,
     unit_price |-> prods[item.product_id].price,
     subtotal |-> DecimalMul(prods[item.product_id].price, item.quantity),
     current_stock |-> prods[item.product_id].stock]

\* sales.py:121-128, the entry appended to validated_items
ValidatedItem(prods, item) ==
    [product_id |-> item.product_id,
     quantity |-> item.quantity,
     unit_price |-> item.unit_price,
     subtotal |-> Subtotal(item),
     current_stock |-> prods[item.product_id].stock]

\* mutant of ValidateFrom: an item that fails is left out of the sale and the
\* loop goes on with the next item
RECURSIVE ValidateFromSkipping(_, _, _, _, _)
ValidateFromSkipping(prods, items, k, total, vitems) ==
    IF k > Len(items) THEN [resp |-> NoResp, total |-> total, vitems |-> vitems]
    ELSE IF CheckItem(prods, items[k]).kind # "None"
         THEN ValidateFromSkipping(prods, items, k + 1, total, vitems)
         ELSE LET v == ValidatedItem(prods, items[k])
              IN  ValidateFromSkipping(prods, items, k + 1, total + v.subtotal,
                                       Append(vitems, v))

\* sales.py:77-132, the validation loop from item k on: it stops at the first
\* item that fails and otherwise accumulates total_amount and validated_items
RECURSIVE ValidateFrom(_, _, _, _, _)
ValidateFrom(prods, items, k, total, vitems) ==
    IF k > Len(items) THEN [resp |-> NoResp, total |-> total, vitems |-> vitems]
    ELSE LET r == CheckItem(prods, items[k])
         IN  IF r.kind # "None" THEN [resp |-> r, total |-> 0, vitems |-> <<>>]
             ELSE LET v == ValidatedItem(prods, items[k])
                  IN  ValidateFrom(prods, items, k + 1, total + v.subtotal,
                                   Append(vitems, v))

ValidateItems(prods, items) == ValidateFrom(prods, items, 1, 0, <<>>)

\* ----------------------------------------------------- create_sale: writes
\* sales.py:143-146, the sales row inserted
SaleRow(user, total) ==
    [user_id |-> user, total_amount |-> ToFloat(total), status |-> "completed"]

\* sales.py:158-168, the sale_items row inserted for one validated item
SaleItemRow(sale_id, v) ==
    [sale_id |-> sale_id,
     product_id |-> v.product_id,
     quantity |-> v.quantity,
     unit_price |-> ToFloat(v.unit_price),
     subtotal |-> ToFloat(v.subtotal)]

SaleItemRows(sale_id, vitems) ==
    [k \in 1..Len(vitems) |-> SaleItemRow(sale_id, vitems[k])]

\* sales.py:173-177, UPDATE products SET stock = stock - q WHERE id = pid
DecrementStock(prods, pid, q) ==
    IF pid \in DOMAIN prods
    THEN [prods EXCEPT ![pid].stock = prods[pid].stock - q]
    ELSE prods

\* mutant of UpdateStocks: the stock is set to the stock read in validation
\* less the quantity of the item
RECURSIVE UpdateStocksFromSnapshot(_, _, _)
UpdateStocksFromSnapshot(prods, vitems, k) ==
    IF k > Len(vitems) THEN prods
    ELSE UpdateStocksFromSnapshot(
            [prods EXCEPT ![vitems[k].product_id].stock =
                            vitems[k].current_stock - vitems[k].quantity],
            vitems, k + 1)

\* sales.py:179-183, one UPDATE per validated item, in order
RECURSIVE UpdateStocks(_, _, _)
UpdateStocks(prods, vitems, k) ==
    IF k > Len(vitems) THEN prods
    ELSE UpdateStocks(DecrementStock(prods, vitems[k].product_id, vitems[k].quantity),
                      vitems, k + 1)

\* ----------------------------------------------------- cancel_sale: writes
\* sales.py:560-564, SELECT product_id, quantity FROM sale_items WHERE sale_id
ItemsOfSale(rows, sale_id) == SelectSeq(rows, LAMBDA r : r.sale_id = sale_id)

\* mutant of IncrementStock: SET stock = q
IncrementStockOverwrite(prods, pid, q) ==
    IF pid \in DOMAIN prods
    THEN [prods EXCEPT ![pid].stock = q]
    ELSE prods

\* sales.py:569-572, UPDATE products SET stock = stock + q WHERE id = pid
IncrementStock(prods, pid, q) ==
    IF pid \in DOMAIN prods
    THEN [prods EXCEPT ![pid].stock = prods[pid].stock + q]
    ELSE prods

\* sales.py:568-573, one UPDATE per item of the sale, in order
RECURSIVE RestoreStocks(_, _, _)
RestoreStocks(prods, citems, k) ==
    IF k > Len(citems) THEN prods
    ELSE RestoreStocks(IncrementStock(prods, citems[k].product_id, citems[k].quantity),
                       citems, k + 1)

\* ------------------------------------------------------------ the handlers
Finish(s, r) == [sess[s] EXCEPT !.pc = "done", !.resp = r]

\* sales.py:65-132 and 206-211: create_sale opens its connection and runs the
\* validation loop on the committed rows; a failing item raises, the handler
\* rolls back (nothing was written) and reports the item's error
CreateSaleBegin(s, user, items) ==
    /\ sess[s].pc = "idle"
    /\ Len(sales) < MaxSales
    /\ LET v == ValidateItems(products, items)
           started == [IdleSession EXCEPT !.op = "create_sale", !.user = user,
                                          !.items = items, !.pre = db]
       IN  sess' = [sess EXCEPT ![s] =
                IF v.resp.kind # "None"
                THEN [started EXCEPT !.pc = "done", !.resp = v.resp]
                ELSE [started EXCEPT !.pc = "validated", !.vitems = v.vitems,
                                     !.total = v.total]]
    /\ UNCHANGED <<products, sales, sale_items, restored, product_seq, preq>>
    /\ UNCHANGED importVars

\* sales.py:143-193: INSERT the sale, INSERT its items, UPDATE the stocks, commit
CreateSaleCommit(s) ==
    /\ sess[s].pc = "validated"
    /\ Len(sales) < MaxSales
    /\ LET sale_id == Len(sales) + 1
       IN  /\ sales' = Append(sales, SaleRow(sess[s].user, sess[s].total))
           /\ sale_items' = sale_items \o SaleItemRows(sale_id, sess[s].vitems)
           /\ products' = UpdateStocks(products, sess[s].vitems, 1)
           /\ restored' = Append(restored, 0)
           /\ sess' = [sess EXCEPT ![s].pc = "committed", ![s].sale_id = sale_id]
    /\ UNCHANGED <<product_seq, preq>>
    /\ UNCHANGED importVars

\* sales.py:213-223: a statement before the commit, or the commit, raises: the
\* handler rolls back and reports 500
CreateSaleRollback(s) ==
    /\ sess[s].pc = "validated"
    /\ sess' = [sess EXCEPT ![s] = Finish(s, Resp("InfrastructureFailure", 500))]
    /\ UNCHANGED <<products, sales, sale_items, restored, product_seq, preq>>
    /\ UNCHANGED importVars

\* sales.py:198-204: after the commit the handler reads the sale back and returns it
CreateSaleFetch(s) ==
    /\ sess[s].pc = "committed"
    /\ sess' = [sess EXCEPT ![s] = Finish(s, Resp("Created", 201))]
    /\ UNCHANGED <<products, sales, sale_items, restored, product_seq, preq>>
    /\ UNCHANGED importVars

\* sales.py:198-202 and 213-223: the read-back raises; rollback() after the
\* commit undoes nothing, and the handler reports 500
CreateSaleFetchFails(s) ==
    /\ sess[s].pc = "committed"
    /\ sess' = [sess EXCEPT ![s] = Finish(s, Resp("InfrastructureFailure", 500))]
    /\ UNCHANGED <<products, sales, sale_items, restored, product_seq, preq>>
    /\ UNCHANGED importVars

\* mutant of AlreadyCancelled: the status is compared with another spelling
AlreadyCancelledMisspelt(sale) == sale.status = "canceled"

\* sales.py:552, the test that refuses to cancel a sale twice
AlreadyCancelled(sale) == sale.status = "cancelled"

\* mutant of CancelSaleBegin: a sale that does not exist is answered like a
\* sale that is cancelled already
CancelSaleBeginMissingAsCancelled(s, sale_id) ==
    /\ sess[s].pc = "idle"
    /\ LET started == [IdleSession EXCEPT !.op = "cancel_sale", !.sale_id = sale_id,
                                          !.pre = db]
       IN  sess' = [sess EXCEPT ![s] =
                IF sale_id \notin 1..Len(sales) \/ AlreadyCancelled(sales[sale_id])
                THEN [started EXCEPT !.pc = "done", !.resp = Resp("InvalidState", 400)]
                ELSE [started EXCEPT !.pc = "cancelling",
                                     !.citems = ItemsOfSale(sale_items, sale_id)]]
    /\ UNCHANGED <<products, sales, sale_items, restored, product_seq, preq>>
    /\ UNCHANGED importVars

\* sales.py:532-564: cancel_sale reads the sale, refuses a missing or cancelled
\* one, and reads the sale's items
CancelSaleBegin(s, sale_id) ==
    /\ sess[s].pc = "idle"
    /\ LET started == [IdleSession EXCEPT !.op = "cancel_sale", !.sale_id = sale_id,
                                          !.pre = db]
       IN  sess' = [sess EXCEPT ![s] =
                IF sale_id \notin 1..Len(sales)
                THEN [started EXCEPT !.pc = "done", !.resp = Resp("NotFound", 404)]
                ELSE IF AlreadyCancelled(sales[sale_id])
                THEN [started EXCEPT !.pc = "done", !.resp = Resp("InvalidState", 400)]
                ELSE [started EXCEPT !.pc = "cancelling",
                                     !.citems = ItemsOfSale(sale_items, sale_id)]]
    /\ UNCHANGED <<products, sales, sale_items, restored, product_seq, preq>>
    /\ UNCHANGED importVars

\* mutant of CancelSaleCommit: the cancellation also deletes the sale's items
CancelSaleCommitDeletingItems(s) ==
    /\ sess[s].pc = "cancelling"
    /\ products' = RestoreStocks(products, sess[s].citems, 1)
    /\ sales' = [sales EXCEPT ![sess[s].sale_id].status = "cancelled"]
    /\ sale_items' = SelectSeq(sale_items, LAMBDA r : r.sale_id # sess[s].sale_id)
    /\ restored' = [restored EXCEPT ![sess[s].sale_id] = @ + 1]
    /\ sess' = [sess EXCEPT ![s] = Finish(s, Resp("Cancelled", 200))]
    /\ UNCHANGED <<product_seq, preq>>
    /\ UNCHANGED importVars

\* sales.py:568-590: UPDATE the stocks, UPDATE the sale's status, commit, return
CancelSaleCommit(s) ==
    /\ sess[s].pc = "cancelling"
    /\ products' = RestoreStocks(products, sess[s].citems, 1)
    /\ sales' = [sales EXCEPT ![sess[s].sale_id].status = "cancelled"]
    /\ restored' = [restored EXCEPT ![sess[s].sale_id] = @ + 1]
    /\ sess' = [sess EXCEPT ![s] = Finish(s, Resp("Cancelled", 200))]
    /\ UNCHANGED <<sale_items, product_seq, preq>>
    /\ UNCHANGED importVars

\* sales.py:597-604: a statement or the commit raises: rollback, 500
CancelSaleRollback(s) ==
    /\ sess[s].pc = "cancelling"
    /\ sess' = [sess EXCEPT ![s] = Finish(s, Resp("InfrastructureFailure", 500))]
    /\ UNCHANGED <<products, sales, sale_items, restored, product_seq, preq>>
    /\ UNCHANGED importVars

\* sales.py:65-71: create_sale gets no connection and reports 500 at once
CreateSaleNoConnection(s, user, items) ==
    /\ sess[s].pc = "idle"
    /\ sess' = [sess EXCEPT ![s] =
            [IdleSession EXCEPT !.op = "create_sale", !.user = user, !.items = items,
                                !.pre = db, !.pc = "done",
                                !.resp = Resp("InfrastructureFailure", 500)]]
    /\ UNCHANGED <<products, sales, sale_items, restored, product_seq, preq>>
    /\ UNCHANGED importVars

\* sales.py:532-537: cancel_sale gets no connection and reports 500 at once
CancelSaleNoConnection(s, sale_id) ==
    /\ sess[s].pc = "idle"
    /\ sess' = [sess EXCEPT ![s] =
            [IdleSession EXCEPT !.op = "cancel_sale", !.sale_id = sale_id,
                                !.pre = db, !.pc = "done",
                                !.resp = Resp("InfrastructureFailure", 500)]]
    /\ UNCHANGED <<products, sales, sale_items, restored, product_seq, preq>>
    /\ UNCHANGED importVars

\* the response leaves, the connection is closed (sales.py:225-232, 606-610)
Respond(s) ==
    /\ sess[s].pc = "done"
    /\ sess' = [sess EXCEPT ![s] = IdleSession]
    /\ UNCHANGED <<products, sales, sale_items, restored, product_seq, preq>>
    /\ UNCHANGED importVars

\* ------------------------------------------------------- product handlers
\* the id the store gives the next row inserted (AUTO_INCREMENT)
NextProductId == product_seq + 1

SkuTaken(prods, sku, except) ==
    \E q \in DOMAIN prods : q # except /\ prods[q].sku = sku

\* products.py:348-377: create_product refuses a sku that exists and inserts
\* the row (ProductBase: price > 0, stock >= 0, min_stock >= 0)
create_product(p) ==
    /\ product_seq < MaxProducts
    /\ ~(p.sku # NoSku /\ SkuTaken(products, p.sku, 0))
    /\ products' = [q \in DOMAIN products \cup {NextProductId} |->
                        IF q \in DOMAIN products THEN products[q] ELSE p]
    /\ product_seq' = NextProductId
    /\ UNCHANGED <<sales, sale_items, sess, restored, preq>>
    /\ UNCHANGED importVars

\* an optional field of a request: None, or Some(v)
None == {}
Some(v) == {v}
Opt(S) == {None} \cup {Some(v) : v \in S}

\* products.py:437-474, "if product.<field> is not None": the field is set
Updated(old, new) == IF new = None THEN old ELSE CHOOSE v \in new : TRUE

\* products.py:425-485: update_product sets the fields the request gives
\* (ProductUpdate: price > 0, stock >= 0, min_stock >= 0)
update_product(pid, u) ==
    /\ pid \in DOMAIN products
    /\ ~(u.sku # None /\ SkuTaken(products, Updated(NoSku, u.sku), pid))
    /\ \E f \in DOMAIN u : u[f] # None
    /\ products' = [products EXCEPT ![pid] =
            [sku |-> Updated(@.sku, u.sku),
             price |-> Updated(@.price, u.price),
             stock |-> Updated(@.stock, u.stock),
             min_stock |-> Updated(@.min_stock, u.min_stock),
             is_active |-> Updated(@.is_active, u.is_active)]]
    /\ UNCHANGED <<sales, sale_items, sess, restored, product_seq, preq>>
    /\ UNCHANGED importVars

\* The sale_items table references products by id.  The store refuses a
\* DELETE of a product that a sale item references (foreign key); the
\* statement then deletes nothing.
Referenced(pid) == \E k \in 1..Len(sale_items) : sale_items[k].product_id = pid

\* DELETE FROM products WHERE id IN pids, as the store executes it
StoreDelete(prods, pids) ==
    IF \E pid \in pids : Referenced(pid) THEN prods
    ELSE [q \in DOMAIN prods \ pids |-> prods[q]]

\* products.py:517-535: delete_product looks the product up (404 when the
\* lookup returns no row) and runs the DELETE through execute_query
delete_product(pid) ==
    /\ pid \in DOMAIN products
    /\ products' = StoreDelete(products, {pid})
    /\ UNCHANGED <<sales, sale_items, sess, restored, product_seq, preq>>
    /\ UNCHANGED importVars

\* products.py:246-275: delete_all_products, confirmed, counts the products
\* and runs DELETE FROM products through execute_query
delete_all_products(confirm) ==
    /\ confirm
    /\ DOMAIN products # {}
    /\ products' = StoreDelete(products, DOMAIN products)
    /\ UNCHANGED <<sales, sale_items, sess, restored, product_seq, preq>>
    /\ UNCHANGED importVars

\* products.py:606, uuid4: upload ids are fresh; here they are 1, 2, ... in
\* the order the uploads arrive
\* no product request is being served
IdleReq == [pc |-> "idle"]

UploadIds == 1..MaxJobs
Pollers == 1..NumPollers

\* a client that polls the registry: what its last request returned (out)
\* and, per upload, the progress and procesados it saw last (seen)
NoOut == [op |-> "none", code |-> 0, upload_id |-> 0, entries |-> <<>>]
Unseen == [progress |-> 0, procesados |-> 0]
IdlePoll ==
    [pc |-> "idle", refs |-> <<>>, k |-> 0, pos |-> 0, done |-> <<>>, cur |-> <<>>,
     out |-> NoOut, seen |-> [j \in UploadIds |-> Unseen]]
\* ------------------------------------------------------ the specifications
Init ==
    /\ products = <<>>
    /\ sales = <<>>
    /\ sale_items = <<>>
    /\ restored = <<>>
    /\ sess = [s \in Sessions |-> IdleSession]
    /\ product_seq = 0
    /\ preq = IdleReq
    /\ upload_progress = <<>>
    /\ job = <<>>
    /\ pool_queue = <<>>
    /\ poll = [p \in Pollers |-> IdlePoll]
    /\ applied = <<>>

AllIdle == \A s \in Sessions : sess[s].pc = "idle"
OthersIdle(s) == \A t \in Sessions \ {s} : sess[t].pc = "idle"

\* One step of the system.  SS: the connections that serve sale requests.
\* serial: requests are served one after another; otherwise the steps of the
\* requests interleave.  IL, NP, PU: the requests that arrive (item lists,
\* new products, product updates).
Step(SS, serial, IL, NP, PU) ==
    \/ \E s \in SS, u \in Users, items \in IL :
          (serial => OthersIdle(s)) /\ CreateSaleBegin(s, u, items)
    \/ \E s \in SS : CreateSaleCommit(s)
    \/ \E s \in SS : CreateSaleRollback(s)
    \/ \E s \in SS : CreateSaleFetch(s)
    \/ \E s \in SS : CreateSaleFetchFails(s)
    \/ \E s \in SS, id \in 1..MaxSales :
          (serial => OthersIdle(s)) /\ CancelSaleBegin(s, id)
    \/ \E s \in SS : CancelSaleCommit(s)
    \/ \E s \in SS : CancelSaleRollback(s)
    \/ \E s \in SS, u \in Users, items \in IL :
          (serial => OthersIdle(s)) /\ CreateSaleNoConnection(s, u, items)
    \/ \E s \in SS, id \in 1..MaxSales :
          (serial => OthersIdle(s)) /\ CancelSaleNoConnection(s, id)
    \/ \E s \in SS : Respond(s)
    \/ \E p \in NP : (serial => AllIdle) /\ create_product(p)
    \/ \E pid \in ProductIds, u \in PU : (serial => AllIdle) /\ update_product(pid, u)

\* --- the stock ledger, requests served one after another
StockItems == [product_id : ProductIds, quantity : 1..MaxQty, unit_price : {1}]
\* SaleCreate.items: min_length = 1
StockItemLists == {l \in SeqsUpTo(StockItems, MaxItems) : Len(l) >= 1}
StockNewProducts ==
    [sku : {NoSku}, price : {1}, stock : 0..MaxStock,
     min_stock : {DefaultMinStock}, is_active : BOOLEAN]
StockUpdates ==
    [sku : {None}, price : {None}, stock : {None, Some(MaxStock)},
     min_stock : {None}, is_active : Opt(BOOLEAN)]

Next == Step({1}, TRUE, StockItemLists, StockNewProducts, StockUpdates)

Spec == Init /\ [][Next]_vars

\* --- prices: one product sold at several request prices while its catalog
\* price changes, requests served one after another
PriceItems == [product_id : {1}, quantity : 1..MaxQty, unit_price : UnitPrices]
PriceItemLists == {l \in SeqsUpTo(PriceItems, MaxItems) : Len(l) >= 1}
PriceNewProducts ==
    [sku : {NoSku}, price : CatalogPrices, stock : 0..MaxStock,
     min_stock : MinStocks, is_active : {TRUE}]
PriceUpdates ==
    [sku : {None}, price : Opt(CatalogPrices), stock : {None},
     min_stock : {None}, is_active : {None}]

NextPrice ==
    /\ Step({1}, TRUE, PriceItemLists, PriceNewProducts, PriceUpdates)
    /\ DOMAIN products' \subseteq {1}

SpecPrice == Init /\ [][NextPrice]_vars

\* --- concurrent requests: the steps of the sale requests of all connections
\* and of the product requests interleave
ConcItems == [product_id : {1}, quantity : 1..MaxQty, unit_price : {1}]
ConcItemLists == {<<i>> : i \in ConcItems}
ConcNewProducts ==
    [sku : {NoSku}, price : {1}, stock : 0..MaxStock,
     min_stock : {DefaultMinStock}, is_active : {TRUE}]
ConcUpdates ==
    [sku : {None}, price : {None}, stock : {Some(MaxStock)},
     min_stock : {None}, is_active : {None}]

NextConc ==
    /\ Step(Sessions, FALSE, ConcItemLists, ConcNewProducts, ConcUpdates)
    /\ DOMAIN products' \subseteq {1}

SpecConc == Init /\ [][NextConc]_vars

\* --- the catalog: products are created, edited and deleted between sales,
\* requests served one after another
CatalogItems == [product_id : ProductIds, quantity : {1}, unit_price : UnitPrices]
CatalogItemLists == {l \in SeqsUpTo(CatalogItems, MaxItems) : Len(l) >= 1}
CatalogNewProducts ==
    [sku : {NoSku}, price : {1}, stock : {MaxStock},
     min_stock : {DefaultMinStock}, is_active : {TRUE}]
CatalogUpdates ==
    [sku : {None}, price : Opt({2}), stock : {None},
     min_stock : {None}, is_active : Opt({FALSE})]

NextCatalog ==
    \/ Step({1}, TRUE, CatalogItemLists, CatalogNewProducts, CatalogUpdates)
    \/ \E pid \in ProductIds : AllIdle /\ delete_product(pid)
    \/ \E confirm \in BOOLEAN : AllIdle /\ delete_all_products(confirm)

SpecCatalog == Init /\ [][NextCatalog]_vars

\* ============================================================ bulk import
\* a message of the registry or of the error list: a text and the numbers
\* formatted into it
Msg(text, a, b) == [text |-> text, a |-> a, b |-> b]

\* products.py:610-623, the entry an upload starts with
NewEntry(upload_id) ==
    [upload_id |-> upload_id, status |-> "iniciando", progress |-> 0, total |-> 0,
     procesados |-> 0, exitosos |-> 0, errores |-> 0, duplicados |-> 0,
     detalles_errores |-> <<>>, message |-> Msg("Iniciando carga...", 0, 0)]

\* the keys of an entry in the order the dict holds them (insertion order)
FieldOrder ==
    <<"upload_id", "status", "progress", "total", "procesados", "exitosos",
      "errores", "duplicados", "detalles_errores", "message">>

\* dict.update(kwargs) on one entry
Merge(entry, kwargs) ==
    [f \in DOMAIN entry \cup DOMAIN kwargs |->
        IF f \in DOMAIN kwargs THEN kwargs[f] ELSE entry[f]]

\* mutant of update_progress: the entry is replaced by a fresh one that
\* holds the fields given
update_progress_replacing(reg, upload_id, kwargs) ==
    IF upload_id \in DOMAIN reg
    THEN [reg EXCEPT ![upload_id] = Merge(NewEntry(upload_id), kwargs)]
    ELSE reg

\* products.py:36-40, update_progress under progress_lock
update_progress(reg, upload_id, kwargs) ==
    IF upload_id \in DOMAIN reg
    THEN [reg EXCEPT ![upload_id] = Merge(reg[upload_id], kwargs)]
    ELSE reg

\* (procesados, total) for which the double (procesados / total) * 100 lies
\* just below the whole number it stands for, among totals up to 100
FloatRoundsDown == {<<29, 50>>, <<29, 100>>, <<57, 100>>, <<58, 100>>}

\* mutant of ProgressPercent: the percentage of the rows still to do
ProgressPercentRemaining(index, total_rows) ==
    ((total_rows - index - 1) * 100) \div total_rows

\* products.py:50, int(((index + 1) / total_rows) * 100) in double arithmetic
ProgressPercent(index, total_rows) ==
    IF <<index + 1, total_rows>> \in FloatRoundsDown
    THEN ((index + 1) * 100) \div total_rows - 1
    ELSE ((index + 1) * 100) \div total_rows

\* --- the rows of a spreadsheet.  A cell of the Precio column is blank, a
\* number, or a text that float() refuses.
NoName == ""
Blank == [kind |-> "blank", v |-> 0]
Text == [kind |-> "text", v |-> 0]
Num(v) == [kind |-> "num", v |-> v]
\* a cell that holds v/2, v odd: a number that is not whole
Half(v) == [kind |-> "half", v |-> v]

\* products.py:62-63, int(cell): the fraction is dropped, towards zero
IntOf(cell) ==
    IF cell.kind = "half"
    THEN IF cell.v >= 0 THEN cell.v \div 2 ELSE 0 - ((0 - cell.v) \div 2)
    ELSE cell.v

RowOk == [success |-> TRUE, duplicate |-> FALSE, error |-> Msg("", 0, 0)]
RowError(text, fila) == [success |-> FALSE, duplicate |-> FALSE, error |-> Msg(text, fila, 0)]
RowDuplicate == [success |-> FALSE, duplicate |-> TRUE, error |-> Msg("SKU duplicado", 0, 0)]

\* mutant of Fila: the position of the row before
FilaOfRowBefore(index) == index + 1

\* products.py:69-106, "Fila {index + 2}": the line of the spreadsheet that
\* holds the row, the header being line 1 and index counting rows from 0
Fila(index) == index + 2

\* products.py:58-75: the cells are read in the order Nombre, SKU, Precio,
\* Stock, Min_Stock (float() or int() of a text raises, and the except
\* branch of line 104 makes the row an error), then the three validations
\* in the order of the code; a blank Stock is 0
ExtractAndValidate(row, index) ==
    IF "text" \in {row.precio.kind, row.stock.kind, row.min_stock.kind}
    THEN RowError("ValueError", Fila(index))
    ELSE IF row.nombre = NoName THEN RowError("Nombre vacio", Fila(index))
    ELSE IF row.precio.kind = "blank" \/ row.precio.v <= 0
         THEN RowError("Precio invalido", Fila(index))
    ELSE IF row.stock.kind # "blank" /\ IntOf(row.stock) < 0
         THEN RowError("Stock negativo", Fila(index))
    ELSE RowOk

\* products.py:62-63 and 94, the product a row inserts: a blank Stock is 0,
\* a blank Min_Stock is 5, and the product is active
ProductOfRow(row) ==
    [sku |-> row.sku, price |-> row.precio.v,
     stock |-> IF row.stock.kind = "blank" THEN 0 ELSE IntOf(row.stock),
     min_stock |-> IF row.min_stock.kind = "blank" THEN DefaultMinStock
                   ELSE IntOf(row.min_stock),
     is_active |-> TRUE]

\* mutant of Tally: the loop stops at the first row that is an error
TallyStoppingAtError(jb, result) ==
    IF result.success THEN [jb EXCEPT !.exitosos = @ + 1, !.index = @ + 1]
    ELSE IF result.duplicate THEN [jb EXCEPT !.duplicados = @ + 1, !.index = @ + 1]
    ELSE [jb EXCEPT !.errores = @ + 1, !.index = jb.total_rows,
                    !.error_details = IF Len(@) < MaxErrorDetails
                                      THEN Append(@, result.error) ELSE @]

\* mutant of Tally: every error message is kept
TallyWithoutLimit(jb, result) ==
    IF result.success THEN [jb EXCEPT !.exitosos = @ + 1, !.index = @ + 1]
    ELSE IF result.duplicate THEN [jb EXCEPT !.duplicados = @ + 1, !.index = @ + 1]
    ELSE [jb EXCEPT !.errores = @ + 1, !.index = @ + 1,
                    !.error_details = Append(@, result.error)]

\* products.py:137-144: the loop counts the row's result and goes on with
\* the next row
Tally(jb, result) ==
    IF result.success THEN [jb EXCEPT !.exitosos = @ + 1, !.index = @ + 1]
    ELSE IF result.duplicate THEN [jb EXCEPT !.duplicados = @ + 1, !.index = @ + 1]
    ELSE [jb EXCEPT !.errores = @ + 1, !.index = @ + 1,
                    !.error_details = IF Len(@) < MaxErrorDetails
                                      THEN Append(@, result.error) ELSE @]

\* the locals of an upload: the request's file, then those of
\* process_excel_file_sync (products.py:119, 128-131) and the loop index;
\* temp_file: the file of products.py:640 exists in /tmp/uploads;
\* history: inserted, the ids of the products the job's rows inserted, and
\* failed_statements, how many of its statements execute_query saw fail
NewJob(file) ==
    [pc |-> "uploading", file |-> file, total_rows |-> 0, index |-> 0,
     exitosos |-> 0, errores |-> 0, duplicados |-> 0, error_details |-> <<>>,
     inserted |-> {}, failed_statements |-> 0, temp_file |-> FALSE]

\* the uploads a worker thread of the executor is running
Running ==
    {j \in DOMAIN job : job[j].pc \in {"reading", "rows", "check", "insert", "cleanup"}}

\* the registry after a whole update, recorded in the history as well
Apply(j, kwargs) ==
    /\ upload_progress' = update_progress(upload_progress, j, kwargs)
    /\ applied' = [applied EXCEPT ![j] = @ \cup {upload_progress'[j]}]

\* ------------------------------------------------- the upload handler
\* products.py:606-623: upload_excel_async creates the upload's entry
upload_excel_async(file) ==
    /\ Len(upload_progress) < MaxJobs
    /\ LET upload_id == Len(upload_progress) + 1
       IN  /\ upload_progress' = Append(upload_progress, NewEntry(upload_id))
           /\ applied' = Append(applied, {NewEntry(upload_id)})
           /\ job' = Append(job, NewJob(file))
    /\ UNCHANGED <<pool_queue, poll, products, product_seq, preq>>
    /\ UNCHANGED saleVars

\* products.py:629-633 and 691-695: the file has the wrong extension: HTTP
\* 400, status "error"; products.py:636-642 and 697-707: the directory or
\* the file cannot be made: HTTP 500, status "error" and the exception as
\* message.  Nothing was written to /tmp/uploads.
UploadRejected(j, e) ==
    /\ job[j].pc = "uploading"
    /\ upload_progress' = [upload_progress EXCEPT ![j] =
            IF e = "HTTPException" THEN Merge(@, [status |-> "error"])
            ELSE Merge(@, [status |-> "error", message |-> Msg("OSError", 0, 0)])]
    /\ applied' = [applied EXCEPT ![j] = @ \cup {upload_progress'[j]}]
    /\ job' = [job EXCEPT ![j].pc = "rejected"]
    /\ UNCHANGED <<pool_queue, poll, products, product_seq, preq>>
    /\ UNCHANGED saleVars

\* products.py:636-646: the content of the request is written to the
\* temporary file
UploadSave(j) ==
    /\ job[j].pc = "uploading"
    /\ job' = [job EXCEPT ![j].pc = "saved", ![j].temp_file = TRUE]
    /\ UNCHANGED <<upload_progress, applied, pool_queue, poll, products, product_seq, preq>>
    /\ UNCHANGED saleVars

\* mutant of UploadInvalid: the file is removed and the entry is left as it is
UploadInvalidLeavingEntry(j) ==
    /\ job[j].pc = "saved"
    /\ job' = [job EXCEPT ![j].pc = "rejected", ![j].temp_file = FALSE]
    /\ UNCHANGED <<upload_progress, applied, pool_queue, poll, products, product_seq, preq>>
    /\ UNCHANGED saleVars

\* products.py:649-669 and 691-695: the file cannot be read or lacks a
\* required column; it is removed, HTTP 400, status "error"
UploadInvalid(j) ==
    /\ job[j].pc = "saved"
    /\ upload_progress' = [upload_progress EXCEPT ![j] = Merge(@, [status |-> "error"])]
    /\ applied' = [applied EXCEPT ![j] = @ \cup {upload_progress'[j]}]
    /\ job' = [job EXCEPT ![j].pc = "rejected", ![j].temp_file = FALSE]
    /\ UNCHANGED <<pool_queue, poll, products, product_seq, preq>>
    /\ UNCHANGED saleVars

\* products.py:671-689: the file is handed to the executor, HTTP 202
UploadSubmit(j) ==
    /\ job[j].pc = "saved"
    /\ job' = [job EXCEPT ![j].pc = "queued"]
    /\ pool_queue' = Append(pool_queue, j)
    /\ UNCHANGED <<upload_progress, applied, poll, products, product_seq, preq>>
    /\ UNCHANGED saleVars

\* ------------------------------------------------------------ the worker
\* mutant of WorkerStart: a thread is started for every upload submitted
WorkerStartUnbounded(j) ==
    /\ pool_queue # <<>>
    /\ Head(pool_queue) = j
    /\ pool_queue' = Tail(pool_queue)
    /\ job' = [job EXCEPT ![j].pc = "reading"]
    /\ UNCHANGED <<upload_progress, applied, poll, products, product_seq, preq>>
    /\ UNCHANGED saleVars

\* products.py:29: a thread of the executor, of which there are PoolSize,
\* takes the upload at the head of the queue
WorkerStart(j) ==
    /\ pool_queue # <<>>
    /\ Head(pool_queue) = j
    /\ Cardinality(Running) < PoolSize
    /\ pool_queue' = Tail(pool_queue)
    /\ job' = [job EXCEPT ![j].pc = "reading"]
    /\ UNCHANGED <<upload_progress, applied, poll, products, product_seq, preq>>
    /\ UNCHANGED saleVars

\* products.py:118-131: the file is read, the total published
ReadExcel(j) ==
    /\ job[j].pc = "reading"
    /\ LET total_rows == Len(job[j].file)
       IN  /\ Apply(j, [total |-> total_rows, status |-> "procesando",
                        message |-> Msg("Procesando productos...", total_rows, 0)])
           /\ job' = [job EXCEPT ![j].pc = "rows", ![j].total_rows = total_rows]
    /\ UNCHANGED <<pool_queue, poll, products, product_seq, preq>>
    /\ UNCHANGED saleVars

\* mutant of ReadExcelFails: the exception is logged and nothing is published
ReadExcelFailsSilently(j) ==
    /\ job[j].pc = "reading"
    /\ job' = [job EXCEPT ![j].pc = "cleanup"]
    /\ UNCHANGED <<upload_progress, applied, pool_queue, poll, products, product_seq, preq>>
    /\ UNCHANGED saleVars

\* products.py:118 and 160-166: reading the file raises; the upload is
\* marked "error" with the exception as message
ReadExcelFails(j) ==
    /\ job[j].pc = "reading"
    /\ Apply(j, [status |-> "error", message |-> Msg("Error: read_excel", 0, 0)])
    /\ job' = [job EXCEPT ![j].pc = "cleanup"]
    /\ UNCHANGED <<pool_queue, poll, products, product_seq, preq>>
    /\ UNCHANGED saleVars

\* products.py:134-135 and 48-75: the loop takes the next row;
\* process_excel_row publishes procesados and progress, reads the cells and
\* validates them.  A row that fails is counted at once (137-144); one that
\* passes goes on to the sku check, or to the insert when it has no sku.
RowBegin(j) ==
    /\ job[j].pc = "rows"
    /\ job[j].index < job[j].total_rows
    /\ LET index == job[j].index
           row == job[j].file[index + 1]
           result == ExtractAndValidate(row, index)
       IN  /\ Apply(j, [procesados |-> index + 1,
                        progress |-> ProgressPercent(index, job[j].total_rows),
                        message |-> Msg("Procesando producto", index + 1, job[j].total_rows)])
           /\ job' = [job EXCEPT ![j] =
                  IF ~result.success THEN Tally(@, result)
                  ELSE IF row.sku # NoSku THEN [@ EXCEPT !.pc = "check"]
                  ELSE [@ EXCEPT !.pc = "insert"]]
    /\ UNCHANGED <<pool_queue, poll, products, product_seq, preq>>
    /\ UNCHANGED saleVars

\* mutant of UniqueIndexAllows: the table has no unique index
UniqueIndexAbsent(prods, sku, except) == TRUE

\* The products table has a unique index on sku; rows without sku (NULL) do
\* not collide.  The store refuses an INSERT or an UPDATE that would give
\* a row (except: its id, 0 for a new row) the sku of another row.
UniqueIndexAllows(prods, sku, except) == sku = NoSku \/ ~SkuTaken(prods, sku, except)

\* mutant of SkuExists: the lookup finds no row
SkuExistsNever(prods, sku, ok) == FALSE

\* products.py:79-82 with database.py:117-119 and 140-151: the result of
\* SELECT id FROM products WHERE sku = %s is not empty; execute_query
\* returns the empty list when the connection or the query fails (ok false)
SkuExists(prods, sku, ok) == ok /\ SkuTaken(prods, sku, 0)

\* products.py:78-83: the row's sku is looked up in the committed products;
\* a row whose sku is found is a duplicate and is counted as one
RowCheckSku(j, ok) ==
    /\ job[j].pc = "check"
    /\ LET row == job[j].file[job[j].index + 1]
       IN  job' = [job EXCEPT ![j] =
                IF SkuExists(products, row.sku, ok)
                THEN [Tally(@, RowDuplicate) EXCEPT !.pc = "rows"]
                ELSE [@ EXCEPT !.pc = "insert",
                               !.failed_statements = IF ok THEN @ ELSE @ + 1]]
    /\ UNCHANGED <<upload_progress, applied, pool_queue, poll, products, product_seq, preq>>
    /\ UNCHANGED saleVars

\* mutant of RowInsert: the row counts as inserted whatever the INSERT returned
RowInsertIgnoringResult(j, ok) ==
    /\ job[j].pc = "insert"
    /\ LET row == job[j].file[job[j].index + 1]
       IN  IF ok /\ UniqueIndexAllows(products, row.sku, 0)
           THEN /\ products' = [q \in DOMAIN products \cup {NextProductId} |->
                        IF q \in DOMAIN products THEN products[q] ELSE ProductOfRow(row)]
                /\ product_seq' = NextProductId
                /\ job' = [job EXCEPT ![j] =
                       [Tally(@, RowOk) EXCEPT !.pc = "rows",
                                               !.inserted = @ \cup {NextProductId}]]
           ELSE /\ job' = [job EXCEPT ![j] =
                       [Tally(@, RowOk) EXCEPT !.pc = "rows",
                                               !.failed_statements = IF ok THEN @ ELSE @ + 1]]
                /\ UNCHANGED <<products, product_seq>>
    /\ UNCHANGED <<upload_progress, applied, pool_queue, poll, preq>>
    /\ UNCHANGED saleVars

\* products.py:86-102 with database.py:133-151: the INSERT runs and commits
\* on a connection of its own; execute_query returns -1 when the connection
\* or the statement fails (ok false, or the unique index refuses the sku)
\* and the row is then an error
RowInsert(j, ok) ==
    /\ job[j].pc = "insert"
    /\ LET index == job[j].index
           row == job[j].file[index + 1]
       IN  IF ok /\ UniqueIndexAllows(products, row.sku, 0)
           THEN /\ products' = [q \in DOMAIN products \cup {NextProductId} |->
                        IF q \in DOMAIN products THEN products[q] ELSE ProductOfRow(row)]
                /\ product_seq' = NextProductId
                /\ job' = [job EXCEPT ![j] =
                       [Tally(@, RowOk) EXCEPT !.pc = "rows",
                                               !.inserted = @ \cup {NextProductId}]]
           ELSE /\ job' = [job EXCEPT ![j] =
                       [Tally(@, RowError("Error al insertar", Fila(index)))
                            EXCEPT !.pc = "rows",
                                   !.failed_statements = IF ok THEN @ ELSE @ + 1]]
                /\ UNCHANGED <<products, product_seq>>
    /\ UNCHANGED <<upload_progress, applied, pool_queue, poll, preq>>
    /\ UNCHANGED saleVars

\* products.py:146-156: after the last row the counters are published and
\* the upload is marked "completado"
Finalize(j) ==
    /\ job[j].pc = "rows"
    /\ job[j].index = job[j].total_rows
    /\ Apply(j, [status |-> "completado", progress |-> 100,
                 exitosos |-> job[j].exitosos, errores |-> job[j].errores,
                 duplicados |-> job[j].duplicados,
                 detalles_errores |-> job[j].error_details,
                 message |-> Msg("Procesamiento completado", 0, 0)])
    /\ job' = [job EXCEPT ![j].pc = "cleanup"]
    /\ UNCHANGED <<pool_queue, poll, products, product_seq, preq>>
    /\ UNCHANGED saleVars

\* mutant of Cleanup: the thread also drops the entry of the upload
CleanupRemovingEntry(j) ==
    /\ job[j].pc = "cleanup"
    /\ job' = [job EXCEPT ![j].pc = "finished", ![j].temp_file = FALSE]
    /\ upload_progress' = SubSeq(upload_progress, 1, j - 1)
    /\ UNCHANGED <<applied, pool_queue, poll, products, product_seq, preq>>
    /\ UNCHANGED saleVars

\* mutant of Cleanup: the thread publishes a last message once the file is gone
CleanupPublishing(j) ==
    /\ job[j].pc = "cleanup"
    /\ job' = [job EXCEPT ![j].pc = "finished", ![j].temp_file = FALSE]
    /\ Apply(j, [message |-> Msg("Archivo temporal eliminado", 0, 0)])
    /\ UNCHANGED <<pool_queue, poll, products, product_seq, preq>>
    /\ UNCHANGED saleVars

\* mutant of Cleanup: the thread ends and leaves the temporary file
CleanupKeepingFile(j) ==
    /\ job[j].pc = "cleanup"
    /\ job' = [job EXCEPT ![j].pc = "finished"]
    /\ UNCHANGED <<upload_progress, applied, pool_queue, poll, products, product_seq, preq>>
    /\ UNCHANGED saleVars

\* products.py:168-175: the temporary file is removed and the thread is free
Cleanup(j) ==
    /\ job[j].pc = "cleanup"
    /\ job' = [job EXCEPT ![j].pc = "finished", ![j].temp_file = FALSE]
    /\ UNCHANGED <<upload_progress, applied, pool_queue, poll, products, product_seq, preq>>
    /\ UNCHANGED saleVars

\* ------------------------------------------------------------ the pollers
Sight(entry) == [progress |-> entry.progress, procesados |-> entry.procesados]

\* products.py:726-733: get_upload_progress returns a copy of the entry,
\* taken under progress_lock, or 404
get_upload_progress(p, upload_id) ==
    /\ poll[p].pc = "idle"
    /\ poll' = [poll EXCEPT ![p] =
            IF upload_id \notin DOMAIN upload_progress
            THEN [@ EXCEPT !.out = [op |-> "get", code |-> 404,
                                    upload_id |-> upload_id, entries |-> <<>>]]
            ELSE [@ EXCEPT !.out = [op |-> "get", code |-> 200, upload_id |-> upload_id,
                                    entries |-> <<upload_progress[upload_id]>>],
                           !.seen[upload_id] = Sight(upload_progress[upload_id])]]
    /\ UNCHANGED <<upload_progress, applied, job, pool_queue, products, product_seq, preq>>
    /\ UNCHANGED saleVars

\* products.py:751-755: list_uploads takes, under progress_lock, the list of
\* the entries themselves (no copy) and returns it
list_uploads(p) ==
    /\ poll[p].pc = "idle"
    /\ poll' = [poll EXCEPT ![p] =
            IF upload_progress = <<>>
            THEN [@ EXCEPT !.out = [op |-> "list", code |-> 200, upload_id |-> 0,
                                    entries |-> <<>>]]
            ELSE [@ EXCEPT !.pc = "serializing",
                           !.refs = [i \in 1..Len(upload_progress) |-> i],
                           !.k = 1, !.pos = 1, !.done = <<>>, !.cur = <<>>]]
    /\ UNCHANGED <<upload_progress, applied, job, pool_queue, products, product_seq, preq>>
    /\ UNCHANGED saleVars

\* The response of list_uploads is serialized after the handler returned,
\* the lock released: the encoder walks the entries of the list and the keys
\* of each entry, reading each value from the entry as it is at that moment,
\* while the workers go on updating it.
SerializeField(p) ==
    /\ poll[p].pc = "serializing"
    /\ LET pl == poll[p]
           j == pl.refs[pl.k]
           f == FieldOrder[pl.pos]
           cur == [g \in DOMAIN pl.cur \cup {f} |->
                      IF g = f THEN upload_progress[j][f] ELSE pl.cur[g]]
       IN  poll' = [poll EXCEPT ![p] =
              IF pl.pos < Len(FieldOrder)
              THEN [@ EXCEPT !.pos = pl.pos + 1, !.cur = cur]
              ELSE IF pl.k < Len(pl.refs)
              THEN [@ EXCEPT !.k = pl.k + 1, !.pos = 1, !.cur = <<>>,
                             !.done = Append(pl.done, cur),
                             !.seen[j] = Sight(cur)]
              ELSE [@ EXCEPT !.pc = "idle", !.refs = <<>>, !.k = 0, !.pos = 0,
                             !.cur = <<>>, !.done = <<>>,
                             !.out = [op |-> "list", code |-> 200, upload_id |-> 0,
                                      entries |-> Append(pl.done, cur)],
                             !.seen[j] = Sight(cur)]]
    /\ UNCHANGED <<upload_progress, applied, job, pool_queue, products, product_seq, preq>>
    /\ UNCHANGED saleVars

\* ------------------------------- product requests beside running imports
\* create_product and update_product run each of their statements through
\* execute_query, on a connection of its own that commits at once
\* (database.py:97-160); the rows of a running import are written between
\* the lookup of a request and its INSERT or UPDATE.  preq is the request
\* being served.
EmptySku == ""

\* products.py:348-356: "if product.sku" skips the lookup for a request
\* without sku and for one with the empty sku; a sku that the lookup finds
\* is refused with 400
CreateProductCheck(p, ok) ==
    /\ preq = IdleReq
    /\ product_seq < MaxProducts
    /\ preq' = IF p.sku \notin {NoSku, EmptySku} /\ SkuExists(products, p.sku, ok)
               THEN [pc |-> "done", op |-> "create", code |-> 400]
               ELSE [pc |-> "insert", op |-> "create", p |-> p]
    /\ UNCHANGED <<products, product_seq>>
    /\ UNCHANGED saleVars
    /\ UNCHANGED importVars

\* products.py:358-383: the INSERT, committed by execute_query on a
\* connection of its own; a result <= 0 (the connection or the statement
\* failed, or the unique index refused the sku) is answered 500.  inserted
\* is the id the store gave the row, which the handler does not look at.
CreateProductInsert(ok) ==
    /\ preq.pc = "insert"
    /\ preq.op = "create"
    /\ IF ok /\ UniqueIndexAllows(products, preq.p.sku, 0)
       THEN /\ products' = [q \in DOMAIN products \cup {NextProductId} |->
                    IF q \in DOMAIN products THEN products[q] ELSE preq.p]
            /\ product_seq' = NextProductId
            /\ preq' = [pc |-> "read", op |-> "create", inserted |-> NextProductId]
       ELSE /\ preq' = [pc |-> "done", op |-> "create", code |-> 500]
            /\ UNCHANGED <<products, product_seq>>
    /\ UNCHANGED saleVars
    /\ UNCHANGED importVars

\* products.py:385-396: the read-back, SELECT * FROM products ORDER BY id
\* DESC LIMIT 1 on another connection: the committed row with the highest
\* id is returned with 201; no row (the query failed, or the table is
\* empty) is answered 500
CreateProductRead(ok) ==
    /\ preq.pc = "read"
    /\ preq' = IF ok /\ DOMAIN products # {}
               THEN LET last == CHOOSE q \in DOMAIN products :
                                    \A r \in DOMAIN products : r <= q
                    IN  [pc |-> "done", op |-> "create", code |-> 201,
                         inserted |-> preq.inserted, id |-> last, row |-> products[last]]
               ELSE [pc |-> "done", op |-> "create", code |-> 500]
    /\ UNCHANGED <<products, product_seq>>
    /\ UNCHANGED saleVars
    /\ UNCHANGED importVars

\* products.py:425-454 and 476-480: the product is looked up (404 when the
\* lookup returns no row), then the sku of the request among the other
\* products (400 when it is found); a request that sets no field is
\* refused with 400
UpdateProductCheck(pid, u, ok) ==
    /\ preq = IdleReq
    /\ preq' = IF ~(ok /\ pid \in DOMAIN products)
               THEN [pc |-> "done", op |-> "update", code |-> 404]
               ELSE IF u.sku # None /\ ok /\ SkuTaken(products, Updated(NoSku, u.sku), pid)
               THEN [pc |-> "done", op |-> "update", code |-> 400]
               ELSE IF \A f \in DOMAIN u : u[f] = None
               THEN [pc |-> "done", op |-> "update", code |-> 400]
               ELSE [pc |-> "update", op |-> "update", pid |-> pid, u |-> u]
    /\ UNCHANGED <<products, product_seq>>
    /\ UNCHANGED saleVars
    /\ UNCHANGED importVars

\* products.py:482-490: the UPDATE, whose result is not looked at, then the
\* row is read back and returned (an IndexError, answered 500, when it is
\* not there any more)
UpdateProductWrite(ok) ==
    /\ preq.pc = "update"
    /\ LET pid == preq.pid
           u == preq.u
       IN  /\ products' =
                 IF /\ ok
                    /\ pid \in DOMAIN products
                    /\ u.sku = None \/ UniqueIndexAllows(products, Updated(NoSku, u.sku), pid)
                 THEN [products EXCEPT ![pid] =
                        [sku |-> Updated(@.sku, u.sku),
                         price |-> Updated(@.price, u.price),
                         stock |-> Updated(@.stock, u.stock),
                         min_stock |-> Updated(@.min_stock, u.min_stock),
                         is_active |-> Updated(@.is_active, u.is_active)]]
                 ELSE products
           /\ preq' = [pc |-> "done", op |-> "update",
                       code |-> IF pid \in DOMAIN products THEN 200 ELSE 500]
    /\ UNCHANGED product_seq
    /\ UNCHANGED saleVars
    /\ UNCHANGED importVars

\* the response is sent and the next request is taken
ProductRespond ==
    /\ preq.pc = "done"
    /\ preq' = IdleReq
    /\ UNCHANGED <<products, product_seq>>
    /\ UNCHANGED saleVars
    /\ UNCHANGED importVars

\* products.py:517-535 with database.py:140-151: delete_product, with its
\* answer: 404 when the lookup returns no row; otherwise the DELETE runs
\* through execute_query, which catches the error of a DELETE that the store
\* refuses and returns -1; the handler does not look at the result and
\* answers 200
DeleteProductRequest(pid) ==
    /\ preq = IdleReq
    /\ IF pid \notin DOMAIN products
       THEN /\ preq' = [pc |-> "done", op |-> "delete", pid |-> pid, code |-> 404]
            /\ UNCHANGED products
       ELSE /\ products' = StoreDelete(products, {pid})
            /\ preq' = [pc |-> "done", op |-> "delete", pid |-> pid, code |-> 200]
    /\ UNCHANGED product_seq
    /\ UNCHANGED saleVars
    /\ UNCHANGED importVars

\* products.py:246-275 with database.py:140-151: delete_all_products, with
\* its answer: 400 without confirm, 200 when there is no product, and 200
\* after the DELETE has run through execute_query, whatever its result
DeleteAllProductsRequest(confirm) ==
    /\ preq = IdleReq
    /\ IF ~confirm
       THEN /\ preq' = [pc |-> "done", op |-> "delete_all", pid |-> 0, code |-> 400]
            /\ UNCHANGED products
       ELSE /\ products' = StoreDelete(products, DOMAIN products)
            /\ preq' = [pc |-> "done", op |-> "delete_all", pid |-> 0, code |-> 200]
    /\ UNCHANGED product_seq
    /\ UNCHANGED saleVars
    /\ UNCHANGED importVars

\* One step of a product request.  NP, PU: the bodies of the requests; OK:
\* whether a statement that execute_query runs succeeds
ProductStep(NP, PU, OK) ==
    \/ \E p \in NP, ok \in OK : CreateProductCheck(p, ok)
    \/ \E ok \in OK : CreateProductInsert(ok)
    \/ \E ok \in OK : CreateProductRead(ok)
    \/ \E pid \in ProductIds, u \in PU, ok \in OK : UpdateProductCheck(pid, u, ok)
    \/ \E ok \in OK : UpdateProductWrite(ok)
    \/ ProductRespond

\* One step of the bulk import.  J: the upload ids in use; F: the files
\* uploaded; E: the ways an upload is rejected; OK: whether a statement that
\* execute_query runs succeeds (FALSE: the connection or the statement fails)
ImportStep(J, F, E, OK) ==
    \/ \E file \in F : Len(upload_progress) + 1 \in J /\ upload_excel_async(file)
    \/ \E j \in J \cap DOMAIN job, e \in E : UploadRejected(j, e)
    \/ \E j \in J \cap DOMAIN job : UploadSave(j)
    \/ \E j \in J \cap DOMAIN job : UploadInvalid(j)
    \/ \E j \in J \cap DOMAIN job : UploadSubmit(j)
    \/ \E j \in J \cap DOMAIN job : WorkerStart(j)
    \/ \E j \in J \cap DOMAIN job : ReadExcel(j)
    \/ \E j \in J \cap DOMAIN job : ReadExcelFails(j)
    \/ \E j \in J \cap DOMAIN job : RowBegin(j)
    \/ \E j \in J \cap DOMAIN job, ok \in OK : RowCheckSku(j, ok)
    \/ \E j \in J \cap DOMAIN job, ok \in OK : RowInsert(j, ok)
    \/ \E j \in J \cap DOMAIN job : Finalize(j)
    \/ \E j \in J \cap DOMAIN job : Cleanup(j)

\* One step of a polling client.  PG: the clients that ask for one upload;
\* PL: the clients that ask for the list
PollStep(PG, PL, J) ==
    \/ \E p \in PG, upload_id \in J : get_upload_progress(p, upload_id)
    \/ \E p \in PL : list_uploads(p)
    \/ \E p \in PL : SerializeField(p)

\* --- polling: clients poll the registry while one upload is processed
PollRows == {[nombre |-> "n", sku |-> "A", precio |-> Num(1), stock |-> Num(0),
     min_stock |-> Blank]}
PollFiles == SeqsUpTo(PollRows, MaxRows)

NextPoll ==
    \/ ImportStep({1}, PollFiles, {"HTTPException"}, {TRUE})
    \/ PollStep(Pollers, {1}, {1})

SpecPoll == Init /\ [][NextPoll]_vars

\* --- the worker pool: more uploads than threads, small files
PoolFiles == {<<r>> : r \in PollRows}

NextPool == ImportStep(UploadIds, PoolFiles, {"HTTPException"}, {TRUE})

SpecPool == Init /\ [][NextPool]_vars

\* a thread of the executor that has work to do goes on: the steps of
\* process_excel_file_sync for upload j, from the moment a thread takes it
WorkerStep(j) ==
    /\ j \in DOMAIN job
    /\ \/ WorkerStart(j)
       \/ ReadExcel(j)
       \/ ReadExcelFails(j)
       \/ RowBegin(j)
       \/ \E ok \in BOOLEAN : RowCheckSku(j, ok)
       \/ \E ok \in BOOLEAN : RowInsert(j, ok)
       \/ Finalize(j)
       \/ Cleanup(j)

\* the threads are scheduled fairly
SpecPoolFair == SpecPool /\ \A j \in UploadIds : WF_vars(WorkerStep(j))

\* --- skus: two imports whose files share a sku, beside product requests
\* that create and rename products with the same skus
SkuNewProducts ==
    [sku : {"A", EmptySku}, price : {1}, stock : {0},
     min_stock : {DefaultMinStock}, is_active : {TRUE}]
SkuUpdates ==
    [sku : {None, Some("A"), Some(EmptySku)}, price : {None}, stock : {None},
     min_stock : {None}, is_active : {None}]

NextSku ==
    \/ ImportStep({1, 2}, PoolFiles, {"HTTPException"}, BOOLEAN)
    \/ ProductStep(SkuNewProducts, SkuUpdates, BOOLEAN)

SpecSku == Init /\ [][NextSku]_vars

\* --- one import: a file with valid and invalid rows, statements that
\* fail, and a product that may hold the sku of a row before the import
ImportRows ==
    {[nombre |-> "n", sku |-> "A", precio |-> Num(1), stock |-> Num(0),
     min_stock |-> Blank],
     [nombre |-> "n", sku |-> NoSku, precio |-> Num(1), stock |-> Num(0),
     min_stock |-> Blank],
     [nombre |-> "n", sku |-> NoSku, precio |-> Num(0), stock |-> Num(0),
     min_stock |-> Blank],
     [nombre |-> "n", sku |-> NoSku, precio |-> Text, stock |-> Num(0),
     min_stock |-> Blank],
     [nombre |-> NoName, sku |-> "A", precio |-> Num(1), stock |-> Num(0),
     min_stock |-> Blank]}
ImportFiles == SeqsUpTo(ImportRows, MaxRows)
ImportNewProducts ==
    [sku : {"A"}, price : {1}, stock : {0}, min_stock : {DefaultMinStock},
     is_active : {TRUE}]

NextImport ==
    \/ ImportStep({1}, ImportFiles, {"HTTPException", "Exception"}, BOOLEAN)
    \/ \E p \in ImportNewProducts : upload_progress = <<>> /\ create_product(p)

SpecImport == Init /\ [][NextImport]_vars

SpecImportFair == SpecImport /\ \A j \in UploadIds : WF_vars(WorkerStep(j))

\* the request handler of an upload goes on once it has saved the file: it
\* validates it, then rejects it or hands it to the executor
HandlerStep(j) ==
    /\ j \in DOMAIN job
    /\ (UploadInvalid(j) \/ UploadSubmit(j))

\* the handlers and the threads are scheduled fairly
SpecTempFair ==
    /\ SpecImport
    /\ \A j \in UploadIds : WF_vars(HandlerStep(j))
    /\ \A j \in UploadIds : WF_vars(WorkerStep(j))

\* --- the registry by itself: entries are created, update_progress is
\* called with ids that are in the registry and ids that are not, and a
\* client asks for them
RegistryUpdates ==
    {[status |-> "procesando", total |-> 1],
     [procesados |-> 1, progress |-> 100]}

\* products.py:36-40: a call of update_progress
RegistryUpdate(upload_id, kwargs) ==
    /\ upload_progress' = update_progress(upload_progress, upload_id, kwargs)
    /\ applied' = IF upload_id \in DOMAIN applied
                  THEN [applied EXCEPT ![upload_id] = @ \cup {upload_progress'[upload_id]}]
                  ELSE applied
    /\ UNCHANGED <<job, pool_queue, poll, products, product_seq, preq>>
    /\ UNCHANGED saleVars

NextRegistry ==
    \/ Len(upload_progress) + 1 \in {1, 2} /\ upload_excel_async(<<>>)
    \/ \E upload_id \in UploadIds, kwargs \in RegistryUpdates :
            RegistryUpdate(upload_id, kwargs)
    \/ \E p \in Pollers, upload_id \in UploadIds : get_upload_progress(p, upload_id)

SpecRegistry == Init /\ [][NextRegistry]_vars

\* --- long files: one import of a file with more rows than error messages
\* are kept, each row with price 0 but for at most two valid rows
LongRows ==
    {[nombre |-> "n", sku |-> "A", precio |-> Num(1), stock |-> Num(0),
      min_stock |-> Blank],
     [nombre |-> "n", sku |-> NoSku, precio |-> Num(0), stock |-> Num(0),
      min_stock |-> Blank]}
LongFiles ==
    {f \in UNION {[1..n -> LongRows] :
                    n \in (MaxErrorDetails + 1)..(MaxErrorDetails + MaxExtraRows)} :
        Cardinality({k \in DOMAIN f : f[k].precio = Num(1)}) <= 2}

NextLong == ImportStep({1}, LongFiles, {"HTTPException"}, {TRUE})

SpecLong == Init /\ [][NextLong]_vars

\* --- deletions: products are deleted between sales, requests served one
\* after another
DeleteItemLists ==
    {<<i>> : i \in [product_id : ProductIds, quantity : {1}, unit_price : {1}]}
DeleteNewProducts ==
    [sku : {NoSku}, price : {1}, stock : {1}, min_stock : {DefaultMinStock},
     is_active : {TRUE}]
DeleteUpdates ==
    [sku : {None}, price : {None}, stock : {Some(1)}, min_stock : {None},
     is_active : {None}]

NextDelete ==
    \/ Step({1}, TRUE, DeleteItemLists, DeleteNewProducts, DeleteUpdates)
    \/ \E pid \in ProductIds : AllIdle /\ DeleteProductRequest(pid)
    \/ \E confirm \in BOOLEAN : AllIdle /\ DeleteAllProductsRequest(confirm)
    \/ ProductRespond

SpecDelete == Init /\ [][NextDelete]_vars

\* --- rows: one import of a one-row file whose cells are blank, whole or
\* not, positive or not, beside a product that may hold the row's sku
RowFiles ==
    {<<r>> : r \in [nombre : {"n", NoName}, sku : {NoSku, "A"},
                    precio : {Blank, Num(-1), Num(0), Num(1)},
                    stock : {Blank, Num(-1), Num(1), Half(-1), Half(3)},
                    min_stock : {Blank, Num(0)}]}

NextRows ==
    \/ ImportStep({1}, RowFiles, {"HTTPException"}, BOOLEAN)
    \/ \E p \in ImportNewProducts : upload_progress = <<>> /\ create_product(p)

SpecRows == Init /\ [][NextRows]_vars

\* --- progress: one import of a short file of rows of every kind, or of a
\* file of up to MaxProgressRows rows whose price is 0
ProgressFiles ==
    ImportFiles \cup
    {[k \in 1..n |-> [nombre |-> "n", sku |-> NoSku, precio |-> Num(0),
                      stock |-> Num(0), min_stock |-> Blank]] :
        n \in 1..MaxProgressRows}

NextProgress == ImportStep({1}, ProgressFiles, {"HTTPException"}, {TRUE})

SpecProgress == Init /\ [][NextProgress]_vars

\* ================================================================ claims
RECURSIVE SumQty(_, _, _)
\* total quantity of product p over the rows k..Len(rows)
SumQty(rows, p, k) ==
    IF k > Len(rows) THEN 0
    ELSE (IF rows[k].product_id = p THEN rows[k].quantity ELSE 0) + SumQty(rows, p, k + 1)

RECURSIVE SumSubtotals(_, _)
SumSubtotals(rows, k) ==
    IF k > Len(rows) THEN 0 ELSE rows[k].subtotal + SumSubtotals(rows, k + 1)

Serving(s, op) == sess[s].pc # "idle" /\ sess[s].op = op
Done(s, op) == sess[s].pc = "done" /\ sess[s].op = op

\* item k of a request fails validation on the rows prods: its product is
\* missing, inactive, or has less stock than the quantity asked
ItemFails(prods, item) ==
    \/ item.product_id \notin DOMAIN prods
    \/ /\ item.product_id \in DOMAIN prods
       /\ \/ prods[item.product_id].is_active = FALSE
          \/ item.quantity > prods[item.product_id].stock

\* C1: in every reachable state, after any sequence of committed operations
\* (create_sale with any non-empty item list, also one naming a product more
\* than once; cancel_sale; product create and update), every product's stock
\* is >= 0.
C1_StockNeverNegative ==
    \A p \in DOMAIN products : products[p].stock >= 0

\* C2: a create_sale request in which some item k fails validation (product
\* missing, inactive, or stock < quantity) ends with an error and, when it
\* ends, no product's stock has changed and no sale or sale item row of the
\* request exists: the tables are those of before the request.
C2_FailedValidationWritesNothing ==
    \A s \in Sessions :
        (/\ Serving(s, "create_sale")
         /\ \E k \in 1..Len(sess[s].items) :
                ItemFails(sess[s].pre.products, sess[s].items[k]))
        => /\ db = sess[s].pre
           /\ sess[s].pc = "done"
           /\ sess[s].resp.code >= 400

\* C2 witness: a two-item request whose first item passes and whose second
\* item fails has ended
C2_Witness ==
    \E s \in Sessions :
        /\ Done(s, "create_sale")
        /\ Len(sess[s].items) = 2
        /\ ~ItemFails(sess[s].pre.products, sess[s].items[1])
        /\ ItemFails(sess[s].pre.products, sess[s].items[2])
        /\ sess[s].items[1].product_id # sess[s].items[2].product_id
        /\ sess[s].resp.code >= 400

\* C3: whenever create_sale or cancel_sale reports an error, on any error path
\* and at whatever step the failure occurs (also a failure of the last
\* database statement of the handler), the products' stock and the sale and
\* sale item rows are exactly as before the operation began.
C3_ErrorLeavesTablesAsBefore ==
    \A s \in Sessions :
        (sess[s].pc = "done" /\ sess[s].resp.code >= 400) => db = sess[s].pre

\* C4: a successful cancel_sale adds to each product's stock exactly the total
\* quantity the sale's creation subtracted from it, on top of the stock at the
\* moment of cancellation: creation subtracts the quantities of the sale's
\* item rows, cancellation adds the quantities of the same rows, and the rows
\* of a sale never change in between.
C4_CancelAddsBackWhatCreationTook ==
    [][\A s \in Sessions :
        /\ (sess[s].pc = "validated" /\ sess'[s].pc = "committed")
           => \A p \in DOMAIN products :
                 products'[p].stock = products[p].stock
                    - SumQty(ItemsOfSale(sale_items', sess'[s].sale_id), p, 1)
        /\ (sess[s].pc = "cancelling" /\ sess'[s].resp.code = 200)
           => \A p \in DOMAIN products :
                 products'[p].stock = products[p].stock
                    + SumQty(ItemsOfSale(sale_items, sess[s].sale_id), p, 1)
        /\ \A i \in 1..Len(sale_items) : sale_items'[i] = sale_items[i]
      ]_vars

\* C4 witness: sale 1 has just been cancelled after sale 2 sold the same
\* product, and the stock is not what it was before sale 1
C4_Witness ==
    \E s \in Sessions :
        /\ Done(s, "cancel_sale")
        /\ sess[s].resp.code = 200
        /\ sess[s].sale_id = 1
        /\ Len(sales) = 2
        /\ sales[2].status = "completed"
        /\ \E i, j \in 1..Len(sale_items) :
              /\ sale_items[i].sale_id = 1
              /\ sale_items[j].sale_id = 2
              /\ sale_items[i].product_id = sale_items[j].product_id
              /\ sale_items[i].product_id \in DOMAIN products

\* C5: cancel_sale on a sale that is already cancelled fails and changes no
\* stock, and the failure it reports is InvalidState (HTTP 400) unless the
\* store could not be reached; so cancelling a sale again and again, one
\* request after another, restores its stock exactly once.
C5_CancelledSaleIsNotCancelledAgain ==
    /\ \A s \in Sessions :
          (/\ Done(s, "cancel_sale")
           /\ sess[s].sale_id \in 1..Len(sess[s].pre.sales)
           /\ sess[s].pre.sales[sess[s].sale_id].status = "cancelled")
          => /\ db = sess[s].pre
             /\ sess[s].resp.code >= 400
             /\ sess[s].resp.kind # "InfrastructureFailure"
                => sess[s].resp = Resp("InvalidState", 400)
    /\ \A id \in 1..Len(sales) :
          /\ restored[id] <= 1
          /\ sales[id].status = "cancelled" <=> restored[id] = 1

\* C5 witness: a second cancellation of a cancelled sale has been refused
C5_Witness ==
    \E s \in Sessions :
        /\ Done(s, "cancel_sale")
        /\ sess[s].resp = Resp("InvalidState", 400)
        /\ sess[s].sale_id \in 1..Len(sales)
        /\ restored[sess[s].sale_id] = 1
        /\ Len(ItemsOfSale(sale_items, sess[s].sale_id)) >= 1

\* C6: when two cancel_sale requests for the same sale interleave (both read
\* the sale's status before either commits), the quantities of the sale are
\* added back to stock at most once and at most one of the two succeeds.
C6_InterleavedCancelsRestoreOnce ==
    \A id \in 1..Len(sales) : restored[id] <= 1

\* C7: when two create_sale transactions for one product interleave (both
\* read its stock before either commits) and their quantities together exceed
\* that stock, they do not both commit: the product is never sold beyond its
\* stock and its stock stays >= 0.
C7_InterleavedSalesDoNotOversell ==
    \A p \in ProductIds : p \in DOMAIN products => ~(products[p].stock < 0)

\* C8: for every sale create_sale commits, the stored total_amount is the sum
\* of the subtotals of its sale items, and each sale item's subtotal is its
\* unit_price times its quantity (in cents).
C8_TotalIsSumOfSubtotals ==
    /\ \A id \in 1..Len(sales) :
          sales[id].total_amount = SumSubtotals(ItemsOfSale(sale_items, id), 1)
    /\ \A i \in 1..Len(sale_items) :
          sale_items[i].subtotal = sale_items[i].unit_price * sale_items[i].quantity

\* C8 witness: a committed sale of two items at different prices and quantities
C8_Witness ==
    \E id \in 1..Len(sales) :
        LET rows == ItemsOfSale(sale_items, id)
        IN  /\ Len(rows) = 2
            /\ rows[1].unit_price # rows[2].unit_price
            /\ rows[1].quantity # rows[2].quantity
            /\ sales[id].total_amount > rows[1].subtotal

\* C9: a single-item create_sale for an active product succeeds exactly when
\* quantity <= current stock, whatever min_stock is: it then takes the
\* quantity off the stock (a sale of the whole stock leaves 0), and otherwise
\* fails with InsufficientStock reporting the available stock and the
\* requested quantity, so that after a sale of the whole stock any further
\* sale reports available 0.  (Responses other than an infrastructure failure.)
C9_SaleSucceedsIffStockSuffices ==
    \A s \in Sessions :
        (/\ Done(s, "create_sale")
         /\ Len(sess[s].items) = 1
         /\ sess[s].resp.kind # "InfrastructureFailure"
         /\ sess[s].items[1].product_id \in DOMAIN sess[s].pre.products
         /\ sess[s].pre.products[sess[s].items[1].product_id].is_active)
        => LET item == sess[s].items[1]
               pid == item.product_id
               stock == sess[s].pre.products[pid].stock
           IN  /\ sess[s].resp.kind = "Created" <=> item.quantity <= stock
               /\ sess[s].resp.kind = "Created"
                  => products[pid].stock = stock - item.quantity
               /\ item.quantity > stock
                  => /\ sess[s].resp = StockResp(stock, item.quantity)
                     /\ db = sess[s].pre

\* C9 witness: a product with min_stock above its stock was sold out by one
\* sale, and a further sale of it has failed reporting available 0
C9_Witness ==
    \E s \in Sessions :
        /\ Done(s, "create_sale")
        /\ Len(sess[s].items) = 1
        /\ sess[s].resp.kind = "InsufficientStock"
        /\ sess[s].resp.available = 0
        /\ sess[s].resp.requested >= 1
        /\ Len(sales) >= 1
        /\ sales[1].status = "completed"
        /\ sale_items[1].product_id = sess[s].items[1].product_id
        /\ sale_items[1].quantity = MaxStock
        /\ products[sess[s].items[1].product_id].min_stock > 0

\* C10: the unit_price stored on each sale item is the unit_price the request
\* gave for that item, never the product's catalog price, and its subtotal is
\* that price times the quantity; no later step (a change of the product's
\* price, another sale of the product) changes a stored sale item.
C10_UnitPriceIsTheRequestPrice ==
    /\ [](\A s \in Sessions :
            (Serving(s, "create_sale") /\ sess[s].sale_id # 0)
            => LET rows == ItemsOfSale(sale_items, sess[s].sale_id)
               IN  /\ Len(rows) = Len(sess[s].items)
                   /\ \A k \in 1..Len(rows) :
                         /\ rows[k].unit_price = sess[s].items[k].unit_price
                         /\ rows[k].subtotal =
                               sess[s].items[k].unit_price * sess[s].items[k].quantity)
    /\ [][\A i \in 1..Len(sale_items) : sale_items'[i] = sale_items[i]]_vars

\* C10 witness: two sales of one product at different request prices, each
\* stored with its own price, one of them not the catalog price
C10_Witness ==
    /\ Len(sales) = 2
    /\ \E i, j \in 1..Len(sale_items) :
          /\ sale_items[i].sale_id = 1
          /\ sale_items[j].sale_id = 2
          /\ sale_items[i].product_id = sale_items[j].product_id
          /\ sale_items[i].unit_price # sale_items[j].unit_price
          /\ sale_items[i].unit_price # products[sale_items[i].product_id].price
          /\ sale_items[i].subtotal = sale_items[i].unit_price * sale_items[i].quantity
          /\ sale_items[j].subtotal = sale_items[j].unit_price * sale_items[j].quantity

\* C11: once a sale is committed no step changes its total_amount or adds,
\* changes or deletes a sale_items row of it, whatever the operation (sale
\* creation, cancellation, product creation, update and deletion); and the
\* step that commits a cancellation changes nothing but the status of that
\* sale and the stock of products.
C11_CommittedSaleIsFrozen ==
    [][/\ Len(sales') >= Len(sales)
       /\ \A id \in 1..Len(sales) :
             /\ sales'[id].total_amount = sales[id].total_amount
             /\ ItemsOfSale(sale_items', id) = ItemsOfSale(sale_items, id)
       /\ \A s \in Sessions :
             (sess[s].pc = "cancelling" /\ sess'[s].resp = Resp("Cancelled", 200))
             => /\ sale_items' = sale_items
                /\ sales' = [sales EXCEPT ![sess[s].sale_id].status = "cancelled"]
                /\ DOMAIN products' = DOMAIN products
                /\ \A p \in DOMAIN products :
                      [products'[p] EXCEPT !.stock = products[p].stock] = products[p]
      ]_vars

\* C11 witness: a cancelled sale still has its amount and its items, after a
\* product was deleted and another sale was committed
C11_Witness ==
    /\ Len(sales) = MaxSales
    /\ sales[1].status = "cancelled"
    /\ sales[1].total_amount > 0
    /\ ItemsOfSale(sale_items, 1) # <<>>
    /\ Cardinality(DOMAIN products) < product_seq

\* C13: whenever the worker of an upload stands between two rows, having
\* finished rows 1..i, the registry shows every counter as of those rows:
\* procesados = i, progress = floor(i * 100 / total), and exitosos, errores and
\* duplicados equal to the rows that succeeded, failed and were duplicates.
C13_CountersVisibleAfterEachRow ==
    \A j \in DOMAIN job :
        (job[j].pc = "rows" /\ job[j].index >= 1)
        => /\ upload_progress[j].procesados = job[j].index
           /\ upload_progress[j].progress = (job[j].index * 100) \div job[j].total_rows
           /\ upload_progress[j].exitosos = job[j].exitosos
           /\ upload_progress[j].errores = job[j].errores
           /\ upload_progress[j].duplicados = job[j].duplicados

\* C14: the progress and the procesados that a polling client sees for an
\* upload never decrease from one of its reads to the next, whatever the
\* worker and the other clients do in between.
C14_ObservedProgressNeverDecreases ==
    [][\A p \in Pollers, j \in UploadIds :
          /\ poll'[p].seen[j].progress >= poll[p].seen[j].progress
          /\ poll'[p].seen[j].procesados >= poll[p].seen[j].procesados
      ]_vars

\* C14 witness: two clients have polled the same upload, one saw it half way
\* and the other saw it complete
C14_Witness ==
    /\ poll[1].seen[1].progress = 100
    /\ poll[2].seen[1].progress \in 1..99
    /\ poll[2].seen[1].procesados >= 1
    /\ poll[1].seen[1].procesados > poll[2].seen[1].procesados

\* C15: every entry that a read of the registry returns, by
\* get_upload_progress or by list_uploads, is the upload's entry as it was
\* after some whole number of updates.
C15_ReadsAreWholeSnapshots ==
    \A p \in Pollers :
        \A k \in 1..Len(poll[p].out.entries) :
            poll[p].out.entries[k] \in applied[poll[p].out.entries[k].upload_id]

Terminal(j) == upload_progress[j].status \in {"completado", "error"}

\* C12: every upload handed to the executor eventually has a terminal status
\* in the registry, whatever the reading of the file and the statements of
\* its rows do; and an upload whose worker has ended is terminal, with
\* status "error" and the exception as message exactly when the failure was
\* not one of a row.
C12_EveryJobEndsTerminal ==
    /\ \A j \in UploadIds :
          (j \in DOMAIN job /\ job[j].pc = "queued") ~> (j \in DOMAIN job /\ Terminal(j))
    /\ [](\A j \in DOMAIN job :
            job[j].pc \in {"cleanup", "finished"}
            => /\ Terminal(j)
               /\ upload_progress[j].status = "error"
                  <=> upload_progress[j].message = Msg("Error: read_excel", 0, 0))

\* C12 witness: an upload has completed although one of its rows raised
\* while its cells were read and the insert of another failed
C12_Witness ==
    \E j \in DOMAIN job :
        /\ job[j].pc = "finished"
        /\ upload_progress[j].status = "completado"
        /\ \E a, b \in 1..Len(upload_progress[j].detalles_errores) :
              /\ upload_progress[j].detalles_errores[a].text = "ValueError"
              /\ upload_progress[j].detalles_errores[b].text = "Error al insertar"

\* C16: never more than PoolSize uploads are being processed; an upload
\* submitted while PoolSize are being processed waits in the queue and is
\* eventually taken by a thread.
C16_PoolBoundsAndQueues ==
    /\ [](Cardinality(Running) <= PoolSize)
    /\ \A j \in UploadIds :
          (/\ j \in DOMAIN job
           /\ job[j].pc = "queued"
           /\ Cardinality(Running) = PoolSize)
          ~> (j \in Running)

\* C16 witness: PoolSize uploads are being processed and one more waits
C16_Witness ==
    /\ Cardinality(Running) = PoolSize
    /\ pool_queue # <<>>
    /\ \E j \in DOMAIN job : job[j].pc = "queued"

\* the positions, counted from 1, of the rows of a file that fail while
\* their cells are read or validated
InvalidRows(file) ==
    {i \in 1..Len(file) : ~ExtractAndValidate(file[i], i - 1).success}

\* an upload that completed with exactly one invalid row, no duplicate row
\* and no statement that failed
OneInvalidRow(j) ==
    /\ upload_progress[j].status = "completado"
    /\ Cardinality(InvalidRows(job[j].file)) = 1
    /\ upload_progress[j].duplicados = 0
    /\ job[j].failed_statements = 0

\* C17, as claimed: an import with exactly one invalid row reports exitosos =
\* the number of valid rows and errores = 1, and its one error detail names
\* the position of the invalid row among the rows (2 for the second row).
C17_ErrorNamesRowPosition ==
    \A j \in DOMAIN job :
        OneInvalidRow(j)
        => LET i == CHOOSE i \in InvalidRows(job[j].file) : TRUE
           IN  /\ upload_progress[j].exitosos = Len(job[j].file) - 1
               /\ upload_progress[j].errores = 1
               /\ Len(upload_progress[j].detalles_errores) = 1
               /\ upload_progress[j].detalles_errores[1].a = i

\* C17, amended: an import with exactly one invalid row (no duplicate row, no
\* failed statement) reports exitosos = the number of valid rows and errores
\* = 1, and its one error detail names the line of the spreadsheet that
\* holds the invalid row, the header being line 1: "Fila i + 1" for the i-th
\* row, and no other line.
C17_ErrorNamesSpreadsheetLine ==
    \A j \in DOMAIN job :
        OneInvalidRow(j)
        => LET i == CHOOSE i \in InvalidRows(job[j].file) : TRUE
           IN  /\ upload_progress[j].exitosos = Len(job[j].file) - 1
               /\ upload_progress[j].errores = 1
               /\ Len(upload_progress[j].detalles_errores) = 1
               /\ upload_progress[j].detalles_errores[1].a = i + 1

\* C17 witness: three rows, the second with price 0: two inserted, one error,
\* and the detail reads "Fila 3"
C17_Witness ==
    \E j \in DOMAIN job :
        /\ OneInvalidRow(j)
        /\ Len(job[j].file) = 3
        /\ job[j].file[2].precio = Num(0)
        /\ upload_progress[j].exitosos = 2
        /\ upload_progress[j].errores = 1
        /\ upload_progress[j].detalles_errores = <<Msg("Precio invalido", 3, 0)>>

\* C18: when the lookup of a row's sku runs (and does not fail) while a
\* product with that sku is in the store, the row is counted in duplicados,
\* not in exitosos or errores, and nothing is inserted, also when the product
\* was inserted by an earlier row of the same file; the counters published
\* at the end are those counted.
C18_ExistingSkuCountsAsDuplicate ==
    /\ [][\A j \in DOMAIN job :
            (/\ job[j].pc = "check"
             /\ job'[j].pc # "check"
             /\ job'[j].failed_statements = job[j].failed_statements
             /\ SkuTaken(products, job[j].file[job[j].index + 1].sku, 0))
            => /\ job'[j].duplicados = job[j].duplicados + 1
               /\ job'[j].exitosos = job[j].exitosos
               /\ job'[j].errores = job[j].errores
               /\ job'[j].index = job[j].index + 1
               /\ products' = products
         ]_vars
    /\ [](\A j \in DOMAIN job :
            upload_progress[j].status = "completado"
            => /\ upload_progress[j].duplicados = job[j].duplicados
               /\ upload_progress[j].exitosos = job[j].exitosos
               /\ upload_progress[j].errores = job[j].errores)

\* C18 witness: a completed import counted a duplicate for a sku that an
\* earlier row of the same file had inserted
C18_Witness ==
    \E j \in DOMAIN job :
        /\ upload_progress[j].status = "completado"
        /\ upload_progress[j].duplicados >= 1
        /\ upload_progress[j].errores = 0
        /\ \E pid \in job[j].inserted : products[pid].sku = "A"

\* C20: a row that fails (validation, exception, failed insert) is counted
\* and the loop goes on with the next row, the products in the store staying
\* as they are; a worker that has ended either could not read the file, and
\* then processed no row at all, or has processed every row and marked the
\* upload "completado", the products its rows inserted being in the store.
C20_RowFailuresAreIsolated ==
    /\ [][\A j \in DOMAIN job :
            (j \in DOMAIN job' /\ job'[j].errores > job[j].errores)
            => /\ job'[j].pc = "rows"
               /\ job'[j].index = job[j].index + 1
               /\ job'[j].exitosos = job[j].exitosos
               /\ job'[j].inserted = job[j].inserted
               /\ products' = products
         ]_vars
    /\ [](\A j \in DOMAIN job :
            job[j].pc \in {"cleanup", "finished"}
            => \/ /\ upload_progress[j].status = "error"
                  /\ job[j].index = 0
                  /\ job[j].inserted = {}
                  /\ upload_progress[j].procesados = 0
               \/ /\ upload_progress[j].status = "completado"
                  /\ job[j].index = Len(job[j].file)
                  /\ job[j].exitosos + job[j].errores + job[j].duplicados
                        = Len(job[j].file)
                  /\ Cardinality(job[j].inserted) = job[j].exitosos
                  /\ job[j].inserted \subseteq DOMAIN products)

\* C20 witness: the first row failed validation, the insert of the second
\* failed, the third was inserted, and the upload completed
C20_Witness ==
    \E j \in DOMAIN job :
        /\ job[j].pc = "finished"
        /\ upload_progress[j].status = "completado"
        /\ Len(upload_progress[j].detalles_errores) = 2
        /\ upload_progress[j].detalles_errores[1].a = 2
        /\ upload_progress[j].detalles_errores[2] = Msg("Error al insertar", 3, 0)
        /\ upload_progress[j].exitosos = 1
        /\ job[j].inserted # {}

RowDefective(row) ==
    \/ row.nombre = NoName
    \/ row.precio.kind = "blank"
    \/ row.precio.v <= 0
    \/ row.stock.kind \in {"num", "half"} /\ row.stock.v < 0

\* C21: a row with no name, with no price or a price <= 0, or with a
\* negative stock is rejected: it is counted in errores, its message is
\* recorded and no product is inserted.  A row with none of these defects
\* whose sku no product holds is inserted (when the statements do not fail)
\* as an active product, with stock 0 when Stock is blank and min_stock 5
\* when Min_Stock is blank.
C21_DefectiveRowsAreRejected ==
    [][\A j \in DOMAIN job :
        job'[j].index = job[j].index + 1
        => LET row == job[j].file[job[j].index + 1]
           IN  /\ RowDefective(row)
                  => /\ job'[j].errores = job[j].errores + 1
                     /\ Len(job'[j].error_details) = Len(job[j].error_details) + 1
                     /\ products' = products
               /\ (/\ ~RowDefective(row)
                   /\ job'[j].failed_statements = job[j].failed_statements
                   /\ ~SkuTaken(products, row.sku, 0) \/ row.sku = NoSku)
                  => /\ job'[j].exitosos = job[j].exitosos + 1
                     /\ \E q \in DOMAIN products' \ DOMAIN products :
                          /\ DOMAIN products' = DOMAIN products \cup {q}
                          /\ products'[q].is_active
                          /\ products'[q].sku = row.sku
                          /\ row.stock = Blank => products'[q].stock = 0
                          /\ row.min_stock = Blank
                             => products'[q].min_stock = DefaultMinStock
    ]_vars

C23_UpdateMergesAndAbsentIsNoOp ==
    /\ [](\A upload_id \in UploadIds, kwargs \in RegistryUpdates :
            LET reg == update_progress(upload_progress, upload_id, kwargs)
            IN  /\ DOMAIN reg = DOMAIN upload_progress
                /\ upload_id \notin DOMAIN upload_progress => reg = upload_progress
                /\ \A other \in DOMAIN upload_progress \ {upload_id} :
                        reg[other] = upload_progress[other]
                /\ upload_id \in DOMAIN upload_progress
                   => /\ DOMAIN reg[upload_id] = DOMAIN upload_progress[upload_id]
                      /\ \A f \in DOMAIN kwargs : reg[upload_id][f] = kwargs[f]
                      /\ \A f \in DOMAIN reg[upload_id] \ DOMAIN kwargs :
                            reg[upload_id][f] = upload_progress[upload_id][f])
    /\ [][\A p \in Pollers :
            (poll'[p].out # poll[p].out /\ poll'[p].out.op = "get")
            => LET out == poll'[p].out
               IN  IF out.upload_id \in DOMAIN upload_progress
                   THEN out.code = 200 /\ out.entries = <<upload_progress[out.upload_id]>>
                   ELSE out.code = 404 /\ out.entries = <<>>
       ]_vars

\* C23 witness: the registry holds two entries that updates have changed in
\* different fields, while a client was answered 404 for an id the registry
\* does not hold
C23_Witness ==
    /\ Len(upload_progress) = 2
    /\ upload_progress[1] = Merge(NewEntry(1), [status |-> "procesando", total |-> 1])
    /\ upload_progress[2] = Merge(NewEntry(2), [procesados |-> 1, progress |-> 100])
    /\ \E p \in Pollers :
        /\ poll[p].out.code = 404
        /\ poll[p].out.upload_id \notin DOMAIN upload_progress

\* the first item, in input order, that fails validation on the rows prods
FirstFailing(prods, items) ==
    CHOOSE k \in 1..Len(items) :
        /\ ItemFails(prods, items[k])
        /\ \A i \in 1..(k - 1) : ~ItemFails(prods, items[i])

\* the error of an item that fails: NotFound before InvalidState before
\* InsufficientStock
ErrorOf(prods, item) ==
    IF item.product_id \notin DOMAIN prods THEN "NotFound"
    ELSE IF prods[item.product_id].is_active = FALSE THEN "InvalidState"
    ELSE "InsufficientStock"

\* C24: a create_sale request in which some item fails validation is
\* answered (unless no connection is to be had) with the error of the first
\* item, in input order, that fails, whatever the later items are; for that
\* item a missing product is reported as NotFound (404), else an inactive
\* one as InvalidState (400), else InsufficientStock (400) with the stock
\* available and the quantity asked.
C24_FirstFailingItemIsReported ==
    \A s \in Sessions :
        (/\ Done(s, "create_sale")
         /\ sess[s].resp.kind # "InfrastructureFailure"
         /\ \E k \in 1..Len(sess[s].items) :
                ItemFails(sess[s].pre.products, sess[s].items[k]))
        => LET prods == sess[s].pre.products
               item == sess[s].items[FirstFailing(prods, sess[s].items)]
           IN  /\ sess[s].resp.kind = ErrorOf(prods, item)
               /\ sess[s].resp.code = IF sess[s].resp.kind = "NotFound" THEN 404 ELSE 400
               /\ sess[s].resp.kind = "InsufficientStock"
                  => /\ sess[s].resp.available = prods[item.product_id].stock
                     /\ sess[s].resp.requested = item.quantity

\* C24 witness: the first item names an inactive product that also has too
\* little stock, the second a product that does not exist; the answer is
\* InvalidState
C24_Witness ==
    \E s \in Sessions :
        /\ Done(s, "create_sale")
        /\ Len(sess[s].items) = 2
        /\ LET prods == sess[s].pre.products
               first == sess[s].items[1]
           IN  /\ first.product_id \in DOMAIN prods
               /\ ~prods[first.product_id].is_active
               /\ prods[first.product_id].stock < first.quantity
               /\ sess[s].items[2].product_id \notin DOMAIN prods
        /\ sess[s].resp = Resp("InvalidState", 400)

\* C25: while a create_sale request is served, the tables differ from those
\* of before the request only once every item has passed validation.  A
\* request that succeeds (201) has added exactly one sale, completed and
\* owned by the caller, and one sale item per item of the request, in the
\* order of the request and one per occurrence of a product; every product's
\* stock is the stock of before less the sum of the quantities of the items
\* that name it; nothing else has changed.
C25_WritesFollowValidation ==
    \A s \in Sessions :
        /\ (Serving(s, "create_sale") /\ db # sess[s].pre)
           => \A k \in 1..Len(sess[s].items) :
                    ~ItemFails(sess[s].pre.products, sess[s].items[k])
        /\ (Done(s, "create_sale") /\ sess[s].resp.code = 201)
           => LET pre == sess[s].pre
                  items == sess[s].items
                  id == sess[s].sale_id
                  n == Len(pre.sale_items)
              IN  /\ Len(sales) = Len(pre.sales) + 1
                  /\ id = Len(sales)
                  /\ SubSeq(sales, 1, Len(pre.sales)) = pre.sales
                  /\ sales[id].status = "completed"
                  /\ sales[id].user_id = sess[s].user
                  /\ Len(sale_items) = n + Len(items)
                  /\ SubSeq(sale_items, 1, n) = pre.sale_items
                  /\ \A k \in 1..Len(items) :
                        /\ sale_items[n + k].sale_id = id
                        /\ sale_items[n + k].product_id = items[k].product_id
                        /\ sale_items[n + k].quantity = items[k].quantity
                  /\ DOMAIN products = DOMAIN pre.products
                  /\ \A p \in DOMAIN products :
                        products[p] = [pre.products[p] EXCEPT
                                         !.stock = @ - SumQty(items, p, 1)]

\* C25 witness: a request that names one product twice has succeeded: two
\* sale items and the stock less both quantities
C25_Witness ==
    \E s \in Sessions :
        /\ Done(s, "create_sale")
        /\ sess[s].resp.code = 201
        /\ Len(sess[s].items) = 2
        /\ sess[s].items[1].product_id = sess[s].items[2].product_id
        /\ LET p == sess[s].items[1].product_id
           IN  products[p].stock = sess[s].pre.products[p].stock
                                   - sess[s].items[1].quantity - sess[s].items[2].quantity
        /\ Len(ItemsOfSale(sale_items, sess[s].sale_id)) = 2

\* C26: a cancel_sale request for a sale id that does not exist ends with
\* an error, NotFound (404) unless no connection is to be had, and leaves
\* the sales, the sale items and the products as they were.
C26_CancelOfMissingSaleIsNotFound ==
    \A s \in Sessions :
        (/\ Done(s, "cancel_sale")
         /\ sess[s].sale_id \notin 1..Len(sess[s].pre.sales))
        => /\ db = sess[s].pre
           /\ sess[s].resp.code >= 400
           /\ sess[s].resp.kind # "InfrastructureFailure"
              => sess[s].resp = Resp("NotFound", 404)

\* C26 witness: with one sale in the store, the cancellation of sale 2 has
\* been answered 404
C26_Witness ==
    \E s \in Sessions :
        /\ Done(s, "cancel_sale")
        /\ Len(sales) = 1
        /\ sess[s].sale_id = 2
        /\ sess[s].resp = Resp("NotFound", 404)
        /\ db = sess[s].pre

\* the upload was accepted and handed to the executor
HandedToWorker(j) ==
    job[j].pc \in {"queued", "reading", "rows", "check", "insert", "cleanup", "finished"}

\* C27: every entry of the registry belongs to an upload that was accepted
\* and handed to a worker (or whose request is still being handled), and an
\* upload that was rejected has no entry.
C27_RejectedUploadLeavesNoEntry ==
    /\ \A j \in DOMAIN upload_progress :
            j \in DOMAIN job /\ (HandedToWorker(j) \/ job[j].pc \in {"uploading", "saved"})
    /\ \A j \in DOMAIN job : job[j].pc = "rejected" => j \notin DOMAIN upload_progress

\* C27, amended: the entry of an upload is created when the request is
\* received, before the file is validated, and stays: every entry belongs to
\* an upload request and every request has one; the entry of a request that
\* is still being handled has status "iniciando", the entry of an upload
\* that was rejected has status "error", and only an upload handed to a
\* worker has an entry with status "procesando" or "completado".
C27_RejectedUploadKeepsErrorEntry ==
    /\ DOMAIN upload_progress = DOMAIN job
    /\ \A j \in DOMAIN job :
        /\ job[j].pc \in {"uploading", "saved"} => upload_progress[j].status = "iniciando"
        /\ job[j].pc = "rejected" => upload_progress[j].status = "error"
        /\ upload_progress[j].status \in {"procesando", "completado"} => HandedToWorker(j)

\* C27 witness: an upload was rejected and its entry, with status "error"
\* and the message of its creation, is in the registry
C27_Witness ==
    \E j \in DOMAIN job :
        /\ job[j].pc = "rejected"
        /\ j \in DOMAIN upload_progress
        /\ upload_progress[j] = Merge(NewEntry(j), [status |-> "error"])

\* the rows among the first n of a file that fail validation, in row order
FailedRows(file, n) ==
    SelectSeq([k \in 1..n |-> k],
              LAMBDA k : ~ExtractAndValidate(file[k], k - 1).success)

\* C28: the list of error messages of a job never holds more than 10
\* entries, in the job and in the registry; errores counts every row that
\* failed, and the messages kept are those of the first 10 rows that failed,
\* in row order.
C28_ErrorListHoldsFirstTen ==
    \A j \in DOMAIN job :
        LET failed == FailedRows(job[j].file, job[j].index)
            kept == IF Len(failed) < MaxErrorDetails THEN Len(failed) ELSE MaxErrorDetails
        IN  /\ Len(job[j].error_details) <= MaxErrorDetails
            /\ Len(upload_progress[j].detalles_errores) <= MaxErrorDetails
            /\ job[j].errores = Len(failed)
            /\ job[j].error_details =
                 [i \in 1..kept |->
                    ExtractAndValidate(job[j].file[failed[i]], failed[i] - 1).error]
            /\ upload_progress[j].status = "completado"
               => /\ upload_progress[j].errores = Len(failed)
                  /\ upload_progress[j].detalles_errores = job[j].error_details

\* C28 witness: a completed import in which twelve rows failed reports
\* errores = 12 and the messages of the first ten
C28_Witness ==
    \E j \in DOMAIN job :
        /\ upload_progress[j].status = "completado"
        /\ upload_progress[j].errores = MaxErrorDetails + 2
        /\ Len(upload_progress[j].detalles_errores) = MaxErrorDetails
        /\ upload_progress[j].detalles_errores[MaxErrorDetails] =
                Msg("Precio invalido", Fila(MaxErrorDetails - 1), 0)

C30_RefusedDeleteIsReported ==
    [][(preq.pc = "idle" /\ preq'.pc = "done")
       => /\ preq'.op = "delete"
             => /\ (preq'.pid \in DOMAIN products /\ Referenced(preq'.pid))
                   => preq'.code = 400
                /\ preq'.code = 200 => preq'.pid \notin DOMAIN products'
          /\ preq'.op = "delete_all"
             => /\ (\E pid \in DOMAIN products : Referenced(pid)) => preq'.code = 400
                /\ preq'.code = 200 => DOMAIN products' = {}
    ]_vars

\* C31: in every state of an import job 0 <= progress <= 100 and
\* procesados <= total; while the rows are processed progress is
\* floor(procesados * 100 / total); procesados grows by exactly 1 per row,
\* each row taken only when the one before it has been counted.
C31_ProgressIsFloorOfShare ==
    /\ [](\A j \in DOMAIN upload_progress :
            LET e == upload_progress[j]
            IN  /\ 0 <= e.progress
                /\ e.progress <= 100
                /\ e.procesados <= e.total
                /\ (e.status = "procesando" /\ e.procesados > 0)
                   => e.progress = (e.procesados * 100) \div e.total)
    /\ [][\A j \in DOMAIN upload_progress :
            upload_progress'[j].procesados # upload_progress[j].procesados
            => /\ upload_progress'[j].procesados = upload_progress[j].procesados + 1
               /\ job[j].pc = "rows"
               /\ job[j].index = upload_progress[j].procesados
               /\ job[j].exitosos + job[j].errores + job[j].duplicados = job[j].index
       ]_vars

\* C32: whenever the status of an import is "completado", progress = 100,
\* procesados = total = the number of rows of the file, exitosos + errores +
\* duplicados = total, and exitosos is the number of products the job
\* inserted into the store (all of them in the store, where nothing deletes).
C32_CompletedCountersAreConsistent ==
    \A j \in DOMAIN upload_progress :
        upload_progress[j].status = "completado"
        => LET e == upload_progress[j]
           IN  /\ e.progress = 100
               /\ e.procesados = e.total
               /\ e.total = Len(job[j].file)
               /\ e.exitosos + e.errores + e.duplicados = e.total
               /\ e.exitosos = Cardinality(job[j].inserted)
               /\ job[j].inserted \subseteq DOMAIN products

\* C32 witness: a completed import of three rows of which one was inserted,
\* one was a duplicate and one failed because its INSERT failed
C32_Witness ==
    \E j \in DOMAIN upload_progress :
        /\ upload_progress[j].status = "completado"
        /\ upload_progress[j].total = 3
        /\ upload_progress[j].exitosos = 1
        /\ upload_progress[j].duplicados = 1
        /\ upload_progress[j].errores = 1
        /\ job[j].failed_statements >= 1
        /\ Cardinality(job[j].inserted) = 1

\* C33: the ledger of a product is its stock plus the quantities of its
\* sale items that belong to sales with status "completed".  No step of a
\* create_sale or a cancel_sale request changes the ledger of any product,
\* whatever the order in which the steps of the requests interleave.
C33_SalesConserveTheLedger ==
    [][LET Ledger(prods, ss, rows, p) ==
               prods[p].stock
               + SumQty(SelectSeq(rows, LAMBDA r : ss[r.sale_id].status = "completed"),
                        p, 1)
       IN  sess' # sess
           => \A p \in DOMAIN products :
                 Ledger(products', sales', sale_items', p)
                    = Ledger(products, sales, sale_items, p)
    ]_vars

\* C34: the status of a sale only moves from "completed" to "cancelled":
\* a sale is created with status "completed", no sale ever has the status
\* "pending", and once a sale is cancelled no step changes its status or
\* restores stock on its behalf (no cancellation of it commits).
C34_StatusOnlyMovesToCancelled ==
    /\ [](\A id \in 1..Len(sales) : sales[id].status \in {"completed", "cancelled"})
    /\ [][\A id \in 1..Len(sales') :
            IF id \notin 1..Len(sales)
            THEN sales'[id].status = "completed"
            ELSE /\ sales'[id].status # sales[id].status
                    => sales[id].status = "completed" /\ sales'[id].status = "cancelled"
                 /\ sales[id].status = "cancelled"
                    => /\ sales'[id].status = "cancelled"
                       /\ restored'[id] = restored[id]
       ]_vars

\* C35: once the status of an upload's entry is "completado" or "error", no
\* step changes any field of the entry: the status does not go back to
\* "procesando" and the counters stay as the terminal update left them.
C35_TerminalEntryIsFrozen ==
    [][\A j \in DOMAIN upload_progress :
            upload_progress[j].status \in {"completado", "error"}
            => /\ j \in DOMAIN upload_progress'
               /\ upload_progress'[j] = upload_progress[j]
    ]_vars

\* C35 witness: the worker of a completed import has removed the file and
\* ended, and the entry is still the one the final update published
C35_Witness ==
    \E j \in DOMAIN job :
        /\ job[j].pc = "finished"
        /\ upload_progress[j].status = "completado"
        /\ upload_progress[j].procesados = 2
        /\ upload_progress[j].exitosos = job[j].exitosos
        /\ upload_progress[j].errores = 1
        /\ upload_progress[j].detalles_errores = job[j].error_details

\* C36: a create_product request that is answered 201 returns the row that
\* this request inserted, also when an import inserts rows between the
\* request's INSERT and its read-back.
C36_CreateProductReturnsItsOwnRow ==
    [][(preq.pc = "read" /\ preq'.pc = "done" /\ preq'.code = 201)
       => preq'.id = preq.inserted
    ]_vars

====
